---- MODULE Spec2Model ----
(***************************************************************************)
(* A model of the serverless-frontend plugin (src/src/index.ts,            *)
(* src/src/cloudfront.ts, src/src/s3.ts): framework resolution, the        *)
(* CloudFront topology synthesis of addCloudFrontResources, the            *)
(* deploy-time hooks preUploadAssets / uploadAssets, the build chain       *)
(* (addFunctions, build, packageFunctions), and the teardown and           *)
(* invalidate commands.  Each group of handlers has its own specification  *)
(* over the one list of variables: Spec, TopoSpec, BuildSpec, MaintSpec,   *)
(* UploadSpec, DetectSpec.                                                 *)
(*                                                                         *)
(* Conventions.  A JavaScript value that may be undefined is a sequence of *)
(* length 0 (undefined) or 1 (the value).  An object whose set of keys     *)
(* matters (the DistributionConfig) is a function whose DOMAIN is the set  *)
(* of keys that are present.  A string that the code splits or searches is *)
(* a sequence of one-character strings; an error message built from a      *)
(* template is the sequence of its parts; other strings are TLA+ strings.  *)
(***************************************************************************)
EXTENDS Integers, Sequences, FiniteSets, TLC

VARIABLES
    framework,              \* customConfig.framework (override, then detection cache)
    signals,                \* package.json sections and the nuxt.config.ts marker
    buildOutput,            \* entries of the build output directory, in readdir order
    standardCacheBehaviors, \* the module-level StandardCacheBehaviors objects
    Resources,              \* compiledCloudFormationTemplate.Resources
    Outputs,                \* compiledCloudFormationTemplate.Outputs (keys)
    customConfig,           \* custom.frontend: aliases, certificate, cloudfront
    synth,                  \* the last addResources call: ssrForwardHost read, outcome
    stack,                  \* the deployed stack, as describeStacks sees it
    bucket,                 \* the objects of the site bucket: key -> headers
    trace,                  \* external requests and hook invocations, in order
    pc,                     \* position of the deploy / upload command
    error,                  \* the error the last handler threw, "" or <<>> if none
    processEnv,             \* process.env of the plugin host
    packageManager,         \* what identifyPackageManager(true) answers
    stackResources,         \* the deployed stack, as describeStackResources sees it
    functions               \* serverless.service.functions

\* the state only the build, teardown and invalidate commands read or write
hostVars == <<processEnv, packageManager, stackResources, functions>>

vars == <<framework, signals, buildOutput, standardCacheBehaviors, Resources,
          Outputs, customConfig, synth, stack, bucket, trace, pc, error,
          processEnv, packageManager, stackResources, functions>>

-----------------------------------------------------------------------------
(* Bounds of the model *)

\* the longest top-level listing of the build output directory
MaxEntries == 2

-----------------------------------------------------------------------------
(* JavaScript values *)

Undefined == <<>>
Some(x) == <<x>>
IsDefined(o) == Len(o) > 0
Val(o) == o[1]

SeqToSet(s) == {s[i] : i \in 1..Len(s)}

-----------------------------------------------------------------------------
(* Framework resolution: #hasSSR, detectFramework *)

Null == "null"
NoFramework == "undefined"
Frameworks == {"vite", "nitro", "nuxt", "tanstack-start"}
\* an identifier the Framework type does not have, given as an override
Unsupported == "astro"
FrameworkConfigs == Frameworks \cup {Null, NoFramework, Unsupported}

SSRFrameworks == {"nuxt", "nitro", "tanstack-start"}

\* #hasSSR with "vite" among the cases that return true
hasSSR_viteHasServer(fw) ==
    IF fw \in {"nuxt", "nitro", "tanstack-start", "vite"} THEN "true"
    ELSE IF fw \in {Null} THEN "false"
    ELSE "throw"

\* #hasSSR: "true" / "false", or "throw" on the default branch of the switch
hasSSR(fw) ==
    IF fw \in {"nuxt", "nitro", "tanstack-start"} THEN "true"
    ELSE IF fw \in {"vite", Null} THEN "false"
    ELSE "throw"

\* `name in packageJson.<section>`: a TypeError when the section is undefined
InSection(name, section) ==
    IF IsDefined(section) THEN (IF name \in Val(section) THEN "true" ELSE "false")
    ELSE "throw"

\* the if / else-if chain of detectFramework, evaluated left to right
detectFromSignals(sig) ==
    LET deps == sig.dependencies
        dev  == sig.devDependencies
    IN  IF InSection("@tanstack/react-start", deps) = "throw" THEN "throw"
        ELSE IF InSection("@tanstack/react-start", deps) = "true" THEN "tanstack-start"
        ELSE IF InSection("nuxt", deps) = "true" \/ sig.nuxtConfig THEN "nuxt"
        ELSE IF InSection("nitro", deps) = "true" THEN "nitro"
        ELSE IF InSection("vite", deps) = "true" THEN "vite"
        ELSE IF InSection("vite", dev) = "throw" THEN "throw"
        ELSE IF InSection("vite", dev) = "true" THEN "vite"
        ELSE Null

\* detectFramework: the value returned ("throw" when package.json lacks a section)
detectFramework(cfg, sig) ==
    IF cfg # NoFramework THEN cfg ELSE detectFromSignals(sig)

\* detectFramework without the assignments to customConfig.framework
frameworkAfterDetect_notStored(cfg, sig) == cfg

\* customConfig.framework after detectFramework returned or threw
frameworkAfterDetect(cfg, sig) ==
    IF detectFramework(cfg, sig) = "throw" THEN cfg ELSE detectFramework(cfg, sig)

-----------------------------------------------------------------------------
(* src/src/cloudfront.ts: the standard origins, origin groups and behaviors *)

\* cloudfrontArray
cloudfrontArray(array) == [Quantity |-> Len(array), Items |-> array]

StandardOrigins ==
    [staticFiles |->
        [Id |-> "StaticFiles", Kind |-> "S3", DomainName |-> "SiteBucket"],
     staticFilesFallback |->
        [Id |-> "StaticFilesFallback", Kind |-> "S3", DomainName |-> "SiteBucket",
         OriginPath |-> "/index.html?fallback="],
     serverFunction |->
        [Id |-> "ServerFunction", Kind |-> "Custom",
         DomainName |-> "ServerLambdaFunctionUrl"]]

\* StandardOriginGroups with the members of the SPA group pasted into the SSR group
StandardOriginGroups_pastedMembers ==
    [staticFilesSPA |->
        [Id |-> "StaticFilesSPA",
         FailoverCriteria |-> [StatusCodes |-> cloudfrontArray(<<403, 404>>)],
         Members |-> cloudfrontArray(<<[OriginId |-> StandardOrigins.staticFiles.Id],
                                       [OriginId |-> StandardOrigins.staticFilesFallback.Id]>>)],
     staticFilesSSR |->
        [Id |-> "StaticFilesSSR",
         FailoverCriteria |-> [StatusCodes |-> cloudfrontArray(<<403, 404>>)],
         Members |-> cloudfrontArray(<<[OriginId |-> StandardOrigins.staticFiles.Id],
                                       [OriginId |-> StandardOrigins.staticFilesFallback.Id]>>)]]

StandardOriginGroups ==
    [staticFilesSPA |->
        [Id |-> "StaticFilesSPA",
         FailoverCriteria |-> [StatusCodes |-> cloudfrontArray(<<403, 404>>)],
         Members |-> cloudfrontArray(<<[OriginId |-> StandardOrigins.staticFiles.Id],
                                       [OriginId |-> StandardOrigins.staticFilesFallback.Id]>>)],
     staticFilesSSR |->
        [Id |-> "StaticFilesSSR",
         FailoverCriteria |-> [StatusCodes |-> cloudfrontArray(<<403, 404>>)],
         Members |-> cloudfrontArray(<<[OriginId |-> StandardOrigins.staticFiles.Id],
                                       [OriginId |-> StandardOrigins.serverFunction.Id]>>)]]

\* StandardCacheBehaviors as the module is loaded; the objects are shared by
\* reference with every DistributionConfig built from them
StandardCacheBehaviors ==
    [staticFiles |->
        [AllowedMethods |-> "ReadWithoutCors", CachedMethods |-> "ReadWithoutCors",
         CachePolicyId |-> "CachingOptimized", OriginRequestPolicyId |-> "CORS_S3Origin",
         TargetOriginId |-> StandardOrigins.staticFiles.Id,
         ViewerProtocolPolicy |-> "redirect-to-https"],
     staticFilesSPA |->
        [AllowedMethods |-> "ReadWithoutCors", CachedMethods |-> "ReadWithoutCors",
         CachePolicyId |-> "CachingOptimized", OriginRequestPolicyId |-> "CORS_S3Origin",
         TargetOriginId |-> StandardOriginGroups.staticFilesSPA.Id,
         ViewerProtocolPolicy |-> "redirect-to-https"],
     staticFilesSSR |->
        [AllowedMethods |-> "ReadWithoutCors", CachedMethods |-> "ReadWithoutCors",
         CachePolicyId |-> "CachingOptimized", OriginRequestPolicyId |-> "CORS_S3Origin",
         TargetOriginId |-> StandardOriginGroups.staticFilesSSR.Id,
         ViewerProtocolPolicy |-> "redirect-to-https"],
     serverFunction |->
        [AllowedMethods |-> "ReadWrite", CachedMethods |-> "Read",
         CachePolicyId |-> "SiteSSRCachePolicy",
         OriginRequestPolicyId |-> "AllViewerExceptHostHeader",
         TargetOriginId |-> StandardOrigins.serverFunction.Id,
         ViewerProtocolPolicy |-> "redirect-to-https"]]

\* the association addCloudFrontResources assigns to a behavior
ForwardHostAssociation ==
    [EventType |-> "viewer-request", FunctionARN |-> "SSRForwardHost"]

-----------------------------------------------------------------------------
(* The build output directory *)

\* Dirent kinds: isFile(), isDirectory(), neither (a symbolic link)
Kinds == {"file", "dir", "symlink"}

\* file names, as their characters
assetsName  == <<"a", "s", "s", "e", "t", "s">>
nuxtName    == <<"_", "n", "u", "x", "t">>
faviconName == <<"f", "a", "v", "i", "c", "o", "n", ".", "i", "c", "o">>
appJsName   == <<"a", "p", "p", ".", "j", "s">>

\* names of top-level entries and of the entries of a sub-directory
TopNames == {assetsName, nuxtName, faviconName}
ChildNames == {appJsName}

\* file contents
Contents == {"v1"}

\* the children a directory may have, in readdir order
ChildListings ==
    {<<>>} \cup {<<[name |-> n, kind |-> k, content |-> c]>> :
                    n \in ChildNames, k \in {"file", "symlink"}, c \in Contents}

\* a top-level entry; only a directory has children
Entries ==
    {[name |-> n, kind |-> k, content |-> c, children |-> ch] :
        n \in TopNames, k \in Kinds, c \in Contents, ch \in ChildListings}

WellFormedEntry(e) == e.kind # "dir" => e.children = <<>>

\* readdir never reports a name twice
DistinctNames(s) == \A i, j \in 1..Len(s) : i # j => s[i].name # s[j].name

Listings ==
    {s \in UNION {[1..n -> Entries] : n \in 0..MaxEntries} :
        DistinctNames(s) /\ \A i \in 1..Len(s) : WellFormedEntry(s[i])}

\* readdir(directory, {withFileTypes: true})
readdir(out) == [i \in 1..Len(out) |-> [name |-> out[i].name, kind |-> out[i].kind]]

-----------------------------------------------------------------------------
(* Topology synthesis: addBucketResources, addCloudFrontResources *)

EmptyObject == [k \in {} |-> k]

\* addResource / addOutput: assignment to a key of the template
addResource(res, logicalId, config) == (logicalId :> config) @@ res

addOutputs(outs, ids) == outs \cup ids

RECURSIVE split(_, _)
\* String.prototype.split(separator) on a string given as its characters
split(str, sep) ==
    IF \E i \in 1..Len(str) : str[i] = sep
    THEN LET i == CHOOSE k \in 1..Len(str) :
                      str[k] = sep /\ \A j \in 1..(k - 1) : str[j] # sep
         IN  <<SubSeq(str, 1, i - 1)>> \o split(SubSeq(str, i + 1, Len(str)), sep)
    ELSE <<str>>

\* JavaScript truthiness of aliases (string | string[] | undefined): undefined
\* and "" are falsy, every array is truthy
aliasesTruthy(aliases) ==
    CASE aliases.type = "undefined" -> FALSE
      [] aliases.type = "string"    -> Len(aliases.value) > 0
      [] aliases.type = "array"     -> TRUE

\* truthiness of certificate (string | undefined)
certificateTruthy(certificate) == IsDefined(certificate) /\ Val(certificate) # ""

\* config.<key> ?? fallback
orDefault(config, key, fallback) ==
    IF key \in DOMAIN config THEN config[key] ELSE fallback

\* index.ts 345-352: the fields every DistributionConfig starts with
baseDistributionConfig(config) ==
    [Enabled     |-> orDefault(config, "enabled", TRUE),
     HttpVersion |-> orDefault(config, "http", "http2and3"),
     PriceClass  |-> orDefault(config, "price_class", "PriceClass_100"),
     IPV6Enabled |-> orDefault(config, "ipv6", TRUE),
     Comment     |-> IF "description" \in DOMAIN config
                     THEN Some(config["description"]) ELSE Undefined]

\* index.ts 353-366: Aliases and ViewerCertificate
aliasFields(aliases, certificate, config) ==
    IF aliasesTruthy(aliases) /\ certificateTruthy(certificate)
    THEN [Aliases |-> IF aliases.type = "string"
                      THEN split(aliases.value, ",") ELSE aliases.value,
          ViewerCertificate |->
              [AcmCertificateArn |-> Val(certificate),
               MinimumProtocolVersion |-> orDefault(config, "ssl_version", "TLSv1.2_2021"),
               SslSupportMethod |-> "sni-only"]]
    ELSE EmptyObject

\* pathPattern without the parentheses: (file.name + file.isDirectory()) ? "/*" : ""
pathPattern_precedence(file) == <<"/", "*">>

\* index.ts 390-391: file.name + (file.isDirectory() ? "/*" : "")
pathPattern(file) == file.name \o (IF file.kind = "dir" THEN <<"/", "*">> ELSE <<>>)

\* getsBehavior keeping regular files only
getsBehavior_filesOnly(file) == file.kind = "file"

\* index.ts 388: file.isFile() || file.isDirectory()
getsBehavior(file) == file.kind = "file" \/ file.kind = "dir"

\* index.ts 389-393: { PathPattern, ...StandardCacheBehaviors.staticFilesSSR }
ssrBehavior(file, shared) ==
    [PathPattern |-> pathPattern(file)] @@ shared.staticFilesSSR

RECURSIVE ssrCacheBehaviors(_, _)
\* index.ts 382-395: one push per kept entry, in listing order
ssrCacheBehaviors(files, shared) ==
    IF files = <<>> THEN <<>>
    ELSE (IF getsBehavior(Head(files)) THEN <<ssrBehavior(Head(files), shared)>> ELSE <<>>)
         \o ssrCacheBehaviors(Tail(files), shared)

\* topologyFields with the static origin group as the server-compute default
topologyFields_defaultStaticGroup(fw, files, shared) ==
    IF fw \in {"nuxt", "nitro", "tanstack-start"}
    THEN [Origins |-> <<StandardOrigins.staticFiles, StandardOrigins.serverFunction>>,
          OriginGroups |-> cloudfrontArray(<<StandardOriginGroups.staticFilesSSR>>),
          DefaultCacheBehavior |-> "staticFilesSSR",
          CacheBehaviors |-> ssrCacheBehaviors(files, shared)]
    ELSE IF fw = "vite"
    THEN [DefaultRootObject |-> "index.html",
          Origins |-> <<StandardOrigins.staticFiles, StandardOrigins.staticFilesFallback>>,
          OriginGroups |-> cloudfrontArray(<<StandardOriginGroups.staticFilesSPA>>),
          DefaultCacheBehavior |-> "staticFilesSPA"]
    ELSE EmptyObject

\* topologyFields with the plain static behavior as the SPA default
topologyFields_spaWithoutFallback(fw, files, shared) ==
    IF fw \in {"nuxt", "nitro", "tanstack-start"}
    THEN [Origins |-> <<StandardOrigins.staticFiles, StandardOrigins.serverFunction>>,
          OriginGroups |-> cloudfrontArray(<<StandardOriginGroups.staticFilesSSR>>),
          DefaultCacheBehavior |-> "serverFunction",
          CacheBehaviors |-> ssrCacheBehaviors(files, shared)]
    ELSE IF fw = "vite"
    THEN [DefaultRootObject |-> "index.html",
          Origins |-> <<StandardOrigins.staticFiles, StandardOrigins.staticFilesFallback>>,
          OriginGroups |-> cloudfrontArray(<<StandardOriginGroups.staticFilesSPA>>),
          DefaultCacheBehavior |-> "staticFiles"]
    ELSE EmptyObject

\* index.ts 369-410: the switch on the framework.  DefaultCacheBehavior is
\* held by reference: the field names the shared object it points to.
topologyFields(fw, files, shared) ==
    IF fw \in {"nuxt", "nitro", "tanstack-start"}
    THEN [Origins |-> <<StandardOrigins.staticFiles, StandardOrigins.serverFunction>>,
          OriginGroups |-> cloudfrontArray(<<StandardOriginGroups.staticFilesSSR>>),
          DefaultCacheBehavior |-> "serverFunction",
          CacheBehaviors |-> ssrCacheBehaviors(files, shared)]
    ELSE IF fw = "vite"
    THEN [DefaultRootObject |-> "index.html",
          Origins |-> <<StandardOrigins.staticFiles, StandardOrigins.staticFilesFallback>>,
          OriginGroups |-> cloudfrontArray(<<StandardOriginGroups.staticFilesSPA>>),
          DefaultCacheBehavior |-> "staticFilesSPA"]
    ELSE EmptyObject

\* index.ts 418: this.customConfig.ssrForwardHost ?? true
forwardHost(ssrForwardHost) ==
    IF IsDefined(ssrForwardHost) THEN Val(ssrForwardHost) ELSE TRUE

\* forwardTarget matching the ServerFunction origin only
forwardTarget_serverOnly(behavior) ==
    behavior.TargetOriginId = StandardOrigins.serverFunction.Id

\* index.ts 429-434: the targets that get the function association
forwardTarget(behavior) ==
    behavior.TargetOriginId = StandardOrigins.serverFunction.Id
    \/ behavior.TargetOriginId = StandardOriginGroups.staticFilesSSR.Id

\* index.ts 428-447: cacheBehavior.FunctionAssociations = [...] on a match
associate(behavior) ==
    IF forwardTarget(behavior)
    THEN [FunctionAssociations |-> <<ForwardHostAssociation>>] @@ behavior
    ELSE behavior

\* the shared StandardCacheBehaviors after the forEach of index.ts 423-447:
\* the default behavior is the shared object itself and is assigned to in place
sharedAfterForward(fields, shared) ==
    IF "DefaultCacheBehavior" \in DOMAIN fields
    THEN [shared EXCEPT ![fields.DefaultCacheBehavior] = associate(@)]
    ELSE shared

\* the path-scoped behaviors after the forEach (they are copies, made by spread)
behaviorsAfterForward(behaviors) ==
    [i \in 1..Len(behaviors) |-> associate(behaviors[i])]

\* whether the forEach of index.ts 423-447 runs
forwards(fw, ssrForwardHost) == hasSSR(fw) = "true" /\ forwardHost(ssrForwardHost)

\* the DistributionConfig handed to addResource("SiteDistribution"), with the
\* default behavior read through its reference
distributionConfig(fw, files, cfg, ssrForwardHost, shared) ==
    LET config  == orDefault(cfg, "cloudfront", EmptyObject)
        fields  == topologyFields(fw, files, shared)
        shared2 == IF forwards(fw, ssrForwardHost)
                   THEN sharedAfterForward(fields, shared) ELSE shared
        fields2 == IF "CacheBehaviors" \in DOMAIN fields /\ forwards(fw, ssrForwardHost)
                   THEN [fields EXCEPT !.CacheBehaviors = behaviorsAfterForward(@)]
                   ELSE fields
        fields3 == IF "DefaultCacheBehavior" \in DOMAIN fields2
                   THEN [fields2 EXCEPT !.DefaultCacheBehavior = shared2[@]]
                   ELSE fields2
    IN  fields3 @@ aliasFields(cfg.aliases, cfg.certificate, config)
                @@ baseDistributionConfig(config)

\* StandardCacheBehaviors after addCloudFrontResources ran to its end
sharedAfterSynthesis(fw, files, ssrForwardHost, shared) ==
    IF forwards(fw, ssrForwardHost)
    THEN sharedAfterForward(topologyFields(fw, files, shared), shared)
    ELSE shared

\* index.ts 311-324 and 327-344: the resources added before the framework is
\* looked at
resourcesBeforeDetect(res) ==
    addResource(
        addResource(
            addResource(res, "SiteBucket", [Type |-> "AWS::S3::Bucket"]),
            "SiteBucketPolicy", [Type |-> "AWS::S3::BucketPolicy"]),
        "SiteOriginAccessControl", [Type |-> "AWS::CloudFront::OriginAccessControl"])

\* index.ts 411-455: the resources added once #hasSSR has returned
resourcesAfterDetect(res, fw, ssrForwardHost, dc) ==
    LET r1 == IF hasSSR(fw) = "true"
              THEN addResource(res, "SiteSSRCachePolicy",
                               [Type |-> "AWS::CloudFront::CachePolicy"])
              ELSE res
        r2 == IF forwards(fw, ssrForwardHost)
              THEN addResource(r1, "SSRForwardHost", [Type |-> "AWS::CloudFront::Function"])
              ELSE r1
    IN  addResource(r2, "SiteDistribution",
                    [Type |-> "AWS::CloudFront::Distribution",
                     Properties |-> [DistributionConfig |-> dc]])

-----------------------------------------------------------------------------
(* Stack introspection: getStackOutputs *)

\* describeStacks answers: no stack, a stack without the site outputs, a stack
\* an earlier deployment of this plugin created
NoStack == <<>>

StackWithoutSite ==
    <<[Outputs |-> <<[OutputKey |-> "ServerlessDeploymentBucketName",
                      OutputValue |-> "deployment-bucket"]>>]>>

\* the value CloudFormation gives an output of the packaged template
outputValue(key) ==
    CASE key = "SiteBucketName"       -> "site-bucket"
      [] key = "SiteCloudFrontDomain" -> "d111.cloudfront.net"
      [] key = "SiteURL"              -> "https://d111.cloudfront.net"

RECURSIVE outputList(_)
outputList(keys) ==
    IF keys = {} THEN <<>>
    ELSE LET k == CHOOSE x \in keys : TRUE
         IN  <<[OutputKey |-> k, OutputValue |-> outputValue(k)]>> \o outputList(keys \ {k})

\* the stack once the template with outputs `keys` has been applied
stackAfterUpdate(keys) ==
    <<[Outputs |-> StackWithoutSite[1].Outputs \o outputList(keys)]>>

TemplateOutputs == {"SiteBucketName", "SiteCloudFrontDomain", "SiteURL"}

StackStates == {NoStack, StackWithoutSite, stackAfterUpdate(TemplateOutputs)}

RECURSIVE reduceOutputs(_, _)
\* index.ts 192-198: Outputs.reduce((obj, output) => { obj[key] = value; ... }, {})
reduceOutputs(outputs, obj) ==
    IF outputs = <<>> THEN obj
    ELSE reduceOutputs(Tail(outputs),
                       (Head(outputs).OutputKey :> Head(outputs).OutputValue) @@ obj)

\* getStackOutputs on a describeStacks answer whose Stacks is `stacks`
getStackOutputs(stacks) ==
    IF Len(stacks) = 0 THEN EmptyObject ELSE reduceOutputs(stacks[1].Outputs, EmptyObject)

\* index.ts 545 / 558: "SiteBucketName" in outputs
hasBucketOutput(outputs) == "SiteBucketName" \in DOMAIN outputs

-----------------------------------------------------------------------------
(* Asset upload: uploadAssets *)

outputPublicDir ==
    <<".", "o", "u", "t", "p", "u", "t", "/", "p", "u", "b", "l", "i", "c">>
distDir == <<"d", "i", "s", "t">>

\* index.ts 567-572
directory(fw) ==
    IF fw = "nitro" \/ fw = "tanstack-start" \/ fw = "nuxt" THEN outputPublicDir ELSE distDir

\* an anchored regular expression ^<prefix> (or ^<prefix>$ when `end`)
Regex(prefix, end) == [prefix |-> prefix, end |-> end]

\* immutableAssets with the last branch of the chain taken for vite as well
immutableAssets_viteNormal(fw) ==
    IF fw = "nuxt" THEN Regex(nuxtName \o <<"/">>, FALSE)
    ELSE IF fw = "tanstack-start" THEN Regex(assetsName \o <<"/">>, FALSE)
    ELSE IF fw = "nitro" THEN Regex(assetsName \o <<"/">>, FALSE)
    ELSE Regex(<<>>, TRUE)

\* index.ts 573-580: /^_nuxt\//, /^assets\//, /^$/
immutableAssets(fw) ==
    IF fw = "nuxt" THEN Regex(nuxtName \o <<"/">>, FALSE)
    ELSE IF fw = "tanstack-start" THEN Regex(assetsName \o <<"/">>, FALSE)
    ELSE IF fw = "nitro" \/ fw = "vite" THEN Regex(assetsName \o <<"/">>, FALSE)
    ELSE Regex(<<>>, TRUE)

\* String.prototype.match on an anchored expression: a match or none
matches(str, re) ==
    /\ Len(str) >= Len(re.prefix)
    /\ SubSeq(str, 1, Len(re.prefix)) = re.prefix
    /\ re.end => Len(str) = Len(re.prefix)

\* String.prototype.substring(start), start counted from 0
substring(str, start) == SubSeq(str, start + 1, Len(str))

\* src/src/s3.ts 49-52
StandardCacheControl ==
    [normal    |-> "public,max-age=0,s-maxage=86400,stale-while-revalidate=8640",
     immutable |-> "public,max-age=31536000,immutable"]

\* the characters after the last "." of a path, <<>> if it has none
extension(path) ==
    IF \E i \in 1..Len(path) : path[i] = "."
    THEN LET i == CHOOSE k \in 1..Len(path) :
                      path[k] = "." /\ \A j \in (k + 1)..Len(path) : path[j] # "."
         IN  SubSeq(path, i + 1, Len(path))
    ELSE <<>>

\* mime.getType(fullPath): the type of the extension, null when it has none
mimeType(path) ==
    CASE extension(path) = <<"j", "s">>      -> "text/javascript"
      [] extension(path) = <<"i", "c", "o">> -> "image/vnd.microsoft.icon"
      [] extension(path) = <<"h", "t", "m", "l">> -> "text/html"
      [] OTHER                               -> Null

\* fs.readdir(directory, {recursive: true, withFileTypes: true}): every entry
\* below the directory, with the path of the directory that holds it
RECURSIVE readdirRecursive(_, _)
readdirRecursive(out, dir) ==
    IF out = <<>> THEN <<>>
    ELSE LET e == Head(out)
             sub == dir \o <<"/">> \o e.name
         IN  <<[parentPath |-> dir, name |-> e.name, kind |-> e.kind, content |-> e.content]>>
             \o [i \in 1..Len(e.children) |->
                    [parentPath |-> sub, name |-> e.children[i].name,
                     kind |-> e.children[i].kind, content |-> e.children[i].content]]
             \o readdirRecursive(Tail(out), dir)

\* index.ts 587 with every entry taken for a regular file
isFile_any(file) == TRUE

\* index.ts 587: file.isFile()
isFile(file) == file.kind = "file"

\* index.ts 590-602: the putObject parameters of one file
putParams(file, dir, re, bucketName) ==
    LET fullPath == file.parentPath \o <<"/">> \o file.name
        baseKey  == substring(fullPath, Len(dir) + 1)
    IN  [Body         |-> file.content,
         Bucket       |-> bucketName,
         Key          |-> baseKey,
         CacheControl |-> IF matches(baseKey, re)
                          THEN StandardCacheControl.immutable
                          ELSE StandardCacheControl.normal,
         ContentType  |-> mimeType(fullPath)]

RECURSIVE putRequests(_, _, _, _)
\* index.ts 586-604: the putObject requests of the loop, in order
putRequests(files, dir, re, bucketName) ==
    IF files = <<>> THEN <<>>
    ELSE (IF isFile(Head(files))
          THEN <<putParams(Head(files), dir, re, bucketName)>> ELSE <<>>)
         \o putRequests(Tail(files), dir, re, bucketName)

\* a request to the provider, or a spawned command, as the trace records it
Event(op, ok, params) == [op |-> op, ok |-> ok, params |-> params]

\* a bucket that forgets the puts of a step
store_rolledBack(objs, puts) == objs

RECURSIVE store_onlyCurrent(_, _)
\* a bucket that is emptied of every other object by the first put of a step
store_onlyCurrent(objs, puts) ==
    IF puts = <<>> THEN objs
    ELSE (Head(puts).Key :>
             [Body |-> Head(puts).Body, CacheControl |-> Head(puts).CacheControl,
              ContentType |-> Head(puts).ContentType])
         @@ store_onlyCurrent(EmptyObject, Tail(puts))

RECURSIVE store(_, _)
\* the bucket after the puts: putObject overwrites the object of its key
store(objs, puts) ==
    IF puts = <<>> THEN objs
    ELSE store((Head(puts).Key :>
                   [Body |-> Head(puts).Body, CacheControl |-> Head(puts).CacheControl,
                    ContentType |-> Head(puts).ContentType]) @@ objs,
               Tail(puts))

\* an outcome that leaves "vite" as the stored profile whatever was resolved
Outcome_storesVite(events, objs, err, fw) ==
    [events |-> events, bucket |-> objs, error |-> err, framework |-> "vite"]

\* the outcome of a handler
Outcome(events, objs, err, fw) ==
    [events |-> events, bucket |-> objs, error |-> err, framework |-> fw]

\* uploadAssets without the throw of index.ts 558-560: the bucket name is read
\* from the outputs whether or not it is there
uploadAssets_noOutputCheck(cfgFw, sig, out, stacks, objs, failAt) ==
    LET outputs == getStackOutputs(stacks)
        fw      == detectFramework(cfgFw, sig)
        dir     == directory(fw)
        puts    == putRequests(readdirRecursive(out, dir), dir, immutableAssets(fw),
                               IF hasBucketOutput(outputs)
                               THEN outputs["SiteBucketName"] ELSE "undefined")
        k       == IF failAt \in 2..(Len(puts) + 1) THEN failAt - 1 ELSE 0
        done    == IF k = 0 THEN puts ELSE SubSeq(puts, 1, k - 1)
        describe(ok) == Event("describeStacks", ok, EmptyObject)
    IN  IF failAt = 1
        THEN Outcome(<<describe(FALSE)>>, objs, "RequestRejected", cfgFw)
        ELSE IF fw = "throw"
        THEN Outcome(<<describe(TRUE)>>, objs, "TypeError", cfgFw)
        ELSE Outcome(<<describe(TRUE)>>
                        \o [i \in 1..Len(done) |-> Event("putObject", TRUE, done[i])]
                        \o (IF k = 0 THEN <<>> ELSE <<Event("putObject", FALSE, puts[k])>>),
                     store(objs, done),
                     IF k = 0 THEN "" ELSE "RequestRejected",
                     fw)

\* uploadAssets.  failAt = k > 0: the k-th provider request of the handler is
\* rejected (1 is describeStacks, 1 + i the putObject of the i-th file); a
\* rejection ends the handler with the error.
uploadAssets(cfgFw, sig, out, stacks, objs, failAt) ==
    LET outputs == getStackOutputs(stacks)
        fw      == detectFramework(cfgFw, sig)
        dir     == directory(fw)
        puts    == putRequests(readdirRecursive(out, dir), dir, immutableAssets(fw),
                               outputs["SiteBucketName"])
        k       == IF failAt \in 2..(Len(puts) + 1) THEN failAt - 1 ELSE 0
        done    == IF k = 0 THEN puts ELSE SubSeq(puts, 1, k - 1)
        describe(ok) == Event("describeStacks", ok, EmptyObject)
    IN  IF failAt = 1
        THEN Outcome(<<describe(FALSE)>>, objs, "RequestRejected", cfgFw)
        ELSE IF ~hasBucketOutput(outputs)
        THEN Outcome(<<describe(TRUE)>>, objs, "SiteBucketName output not found", cfgFw)
        ELSE IF fw = "throw"
        THEN Outcome(<<describe(TRUE)>>, objs, "TypeError", cfgFw)
        ELSE Outcome(<<describe(TRUE)>>
                        \o [i \in 1..Len(done) |-> Event("putObject", TRUE, done[i])]
                        \o (IF k = 0 THEN <<>> ELSE <<Event("putObject", FALSE, puts[k])>>),
                     store(objs, done),
                     IF k = 0 THEN "" ELSE "RequestRejected",
                     fw)

\* pluginManager.spawn("frontend:upload"): the hook frontend:upload:upload
spawnUpload(cfgFw, sig, out, stacks, objs, failAt) ==
    LET r == uploadAssets(cfgFw, sig, out, stacks, objs, failAt)
    IN  [r EXCEPT !.events = <<Event("spawn", TRUE, [command |-> "frontend:upload"])>> \o @]

\* preUploadAssets with the test of index.ts 545 inverted
preUploadAssets_invertedCheck(cfgFw, sig, out, stacks, objs, failAt) ==
    LET fw       == detectFramework(cfgFw, sig)
        describe(ok) == Event("describeStacks", ok, EmptyObject)
        spawned  == spawnUpload(fw, sig, out, stacks, objs,
                                IF failAt >= 2 THEN failAt - 1 ELSE 0)
    IN  IF fw = "throw" THEN Outcome(<<>>, objs, "TypeError", cfgFw)
        ELSE IF hasSSR(fw) = "throw" THEN Outcome(<<>>, objs, "UnknownFramework", fw)
        ELSE IF hasSSR(fw) = "false" THEN Outcome(<<>>, objs, "", fw)
        ELSE IF failAt = 1 THEN Outcome(<<describe(FALSE)>>, objs, "RequestRejected", fw)
        ELSE IF hasBucketOutput(getStackOutputs(stacks))
        THEN Outcome(<<describe(TRUE)>>, objs, "", fw)
        ELSE [spawned EXCEPT !.events = <<describe(TRUE)>> \o @]

\* preUploadAssets; failAt counts the requests of the handler and of the
\* command it spawns
preUploadAssets(cfgFw, sig, out, stacks, objs, failAt) ==
    LET fw       == detectFramework(cfgFw, sig)
        describe(ok) == Event("describeStacks", ok, EmptyObject)
        spawned  == spawnUpload(fw, sig, out, stacks, objs,
                                IF failAt >= 2 THEN failAt - 1 ELSE 0)
    IN  IF fw = "throw" THEN Outcome(<<>>, objs, "TypeError", cfgFw)
        ELSE IF hasSSR(fw) = "throw" THEN Outcome(<<>>, objs, "UnknownFramework", fw)
        ELSE IF hasSSR(fw) = "false" THEN Outcome(<<>>, objs, "", fw)
        ELSE IF failAt = 1 THEN Outcome(<<describe(FALSE)>>, objs, "RequestRejected", fw)
        ELSE IF ~hasBucketOutput(getStackOutputs(stacks))
        THEN Outcome(<<describe(TRUE)>>, objs, "", fw)
        ELSE [spawned EXCEPT !.events = <<describe(TRUE)>> \o @]

-----------------------------------------------------------------------------
(* The configurations and projects the model ranges over *)

\* package.json and the marker file of a project
Project(deps, dev, marker) ==
    [dependencies |-> deps, devDependencies |-> dev, nuxtConfig |-> marker]

Projects ==
    {Project(Some({"@tanstack/react-start", "vite"}), Some({}), TRUE),
     Project(Some({}), Some({}), TRUE),
     Project(Some({"nitro"}), Some({"vite"}), FALSE),
     Project(Some({}), Some({"vite"}), FALSE),
     Project(Some({}), Some({}), FALSE),
     Project(Some({}), Undefined, FALSE)}

NoProject == Project(Some({}), Some({}), FALSE)

\* custom.frontend.aliases: undefined, a string, or an array of strings
AliasConfigs ==
    {[type |-> "undefined"],
     [type |-> "string", value |-> <<>>],
     [type |-> "string", value |-> <<"a", ",", "b">>],
     [type |-> "array", value |-> <<>>],
     [type |-> "array", value |-> <<(<<"a">>), (<<"b">>)>>]}

CertificateConfigs == {Undefined, Some(""), Some("arn:aws:acm:us-east-1:cert")}

CloudfrontConfigs ==
    {EmptyObject,
     [cloudfront |-> [enabled |-> FALSE, ssl_version |-> "TLSv1.3_2025",
                      description |-> "site"]]}

CustomConfigs ==
    {[aliases |-> a, certificate |-> c] @@ cf :
        a \in AliasConfigs, c \in CertificateConfigs, cf \in CloudfrontConfigs}

ForwardHostConfigs == {Undefined, Some(TRUE), Some(FALSE)}

\* build outputs whose top-level directories are empty
FlatListings == {s \in Listings : \A i \in 1..Len(s) : s[i].children = <<>>}

-----------------------------------------------------------------------------
(* The hook before:package:finalize *)

NoSynthesis == [ran |-> FALSE, ssrForwardHost |-> Undefined]

\* addResources: addBucketResources, then addCloudFrontResources.  The build
\* has run, so the public directory exists and readdir answers.
AddResources ==
    \E ssrForwardHost \in ForwardHostConfigs :
        LET fw    == detectFramework(framework, signals)
            files == readdir(buildOutput)
            res   == resourcesBeforeDetect(Resources)
        IN  /\ synth' = [ran |-> TRUE, ssrForwardHost |-> ssrForwardHost]
            /\ framework' = frameworkAfterDetect(framework, signals)
            /\ IF fw = "throw" \/ hasSSR(fw) = "throw"
               THEN /\ error' = IF fw = "throw" THEN "TypeError" ELSE "UnknownFramework"
                    /\ Resources' = res
                    /\ Outputs' = addOutputs(Outputs, {"SiteBucketName"})
                    /\ UNCHANGED standardCacheBehaviors
               ELSE /\ error' = ""
                    /\ Resources' =
                         resourcesAfterDetect(res, fw, ssrForwardHost,
                             distributionConfig(fw, files, customConfig, ssrForwardHost,
                                                standardCacheBehaviors))
                    /\ Outputs' = addOutputs(Outputs,
                         {"SiteBucketName", "SiteCloudFrontDomain", "SiteURL"})
                    /\ standardCacheBehaviors' =
                         sharedAfterSynthesis(fw, files, ssrForwardHost,
                                              standardCacheBehaviors)
            /\ UNCHANGED <<signals, buildOutput, customConfig, stack, bucket, trace, pc>>
            /\ UNCHANGED hostVars

TopoInit ==
    /\ framework \in FrameworkConfigs
    /\ signals \in (IF framework = NoFramework THEN Projects ELSE {NoProject})
    /\ buildOutput \in FlatListings
    /\ customConfig \in CustomConfigs
    /\ standardCacheBehaviors = StandardCacheBehaviors
    /\ Resources = EmptyObject
    /\ Outputs = {}
    /\ synth = NoSynthesis
    /\ stack = NoStack
    /\ bucket = EmptyObject
    /\ trace = <<>>
    /\ pc = "idle"
    /\ error = ""
    /\ processEnv = EmptyObject
    /\ packageManager = "unknown"
    /\ stackResources = <<>>
    /\ functions = EmptyObject

TopoNext == AddResources

TopoSpec == TopoInit /\ [][TopoNext]_vars

-----------------------------------------------------------------------------
(* The deploy command from before:deploy:deploy on, and the upload command *)

\* the regular files of the build output
RegularFiles(out) ==
    SelectSeq(readdirRecursive(out, <<>>), LAMBDA f : f.kind = "file")

\* the requests a handler can make: describeStacks twice and one putObject per file
FailPoints(out) == 0..(2 + Len(RegularFiles(out)))

\* an object an earlier deployment left in the bucket
oldKey == <<"o", "l", "d", ".", "j", "s">>

OldObjects ==
    oldKey :> [Body |-> "v0", CacheControl |-> StandardCacheControl.normal,
               ContentType |-> "text/javascript"]

\* hook before:deploy:deploy
PreUploadAssets ==
    /\ pc = "idle"
    /\ \E failAt \in FailPoints(buildOutput) :
         LET r == preUploadAssets(framework, signals, buildOutput, stack, bucket, failAt)
         IN  /\ trace' = trace \o r.events
             /\ bucket' = r.bucket
             /\ framework' = r.framework
             /\ error' = r.error
             /\ pc' = IF r.error = "" THEN "deploying" ELSE "failed"
    /\ UNCHANGED <<signals, buildOutput, standardCacheBehaviors, Resources, Outputs,
                   customConfig, synth, stack>>
    /\ UNCHANGED hostVars

\* deploy:deploy, the host's step: the packaged template is applied to the
\* stack, or the update fails and the command ends
UpdateStack ==
    /\ pc = "deploying"
    /\ \E ok \in BOOLEAN :
         /\ trace' = Append(trace, Event("updateStack", ok, EmptyObject))
         /\ stack' = IF ok THEN stackAfterUpdate(Outputs) ELSE stack
         /\ pc' = IF ok THEN "deployed" ELSE "failed"
         /\ error' = IF ok THEN "" ELSE "UpdateFailed"
    /\ UNCHANGED <<framework, signals, buildOutput, standardCacheBehaviors, Resources,
                   Outputs, customConfig, synth, bucket>>
    /\ UNCHANGED hostVars

\* hook after:deploy:deploy: spawn("frontend:upload")
PostDeployUpload ==
    /\ pc = "deployed"
    /\ \E failAt \in FailPoints(buildOutput) :
         LET r == spawnUpload(framework, signals, buildOutput, stack, bucket, failAt)
         IN  /\ trace' = trace \o r.events
             /\ bucket' = r.bucket
             /\ framework' = r.framework
             /\ error' = r.error
             /\ pc' = IF r.error = "" THEN "done" ELSE "failed"
    /\ UNCHANGED <<signals, buildOutput, standardCacheBehaviors, Resources, Outputs,
                   customConfig, synth, stack>>
    /\ UNCHANGED hostVars

\* the command `frontend upload`, run on its own
UploadCommand ==
    /\ pc = "idle"
    /\ \E failAt \in FailPoints(buildOutput) :
         LET r == spawnUpload(framework, signals, buildOutput, stack, bucket, failAt)
         IN  /\ trace' = trace \o r.events
             /\ bucket' = r.bucket
             /\ framework' = r.framework
             /\ error' = r.error
             /\ pc' = IF r.error = "" THEN "uploaded" ELSE "upload-failed"
    /\ UNCHANGED <<signals, buildOutput, standardCacheBehaviors, Resources, Outputs,
                   customConfig, synth, stack>>
    /\ UNCHANGED hostVars

\* the projects a deploy is modelled for when the framework is detected
DeployProjects ==
    {Project(Some({}), Some({}), TRUE),
     Project(Some({}), Some({"vite"}), FALSE),
     Project(Some({}), Undefined, FALSE)}

\* the command starts with a packaged template: one addResources has put its
\* outputs into, or one that was packaged without the plugin (deploy --package)
Init ==
    /\ framework \in FrameworkConfigs
    /\ signals \in (IF framework = NoFramework THEN DeployProjects ELSE {NoProject})
    /\ buildOutput \in Listings
    /\ customConfig = [aliases |-> [type |-> "undefined"], certificate |-> Undefined]
    /\ standardCacheBehaviors = StandardCacheBehaviors
    /\ Resources = EmptyObject
    /\ Outputs \in {TemplateOutputs, {}}
    /\ synth = NoSynthesis
    /\ stack \in StackStates
    /\ bucket \in (IF hasBucketOutput(getStackOutputs(stack))
                   THEN {EmptyObject, OldObjects} ELSE {EmptyObject})
    /\ trace = <<>>
    /\ pc = "idle"
    /\ error = ""
    /\ processEnv = EmptyObject
    /\ packageManager = "unknown"
    /\ stackResources = <<>>
    /\ functions = EmptyObject

Next == PreUploadAssets \/ UpdateStack \/ PostDeployUpload \/ UploadCommand

Spec == Init /\ [][Next]_vars

-----------------------------------------------------------------------------
(* Properties of the deploy and upload commands *)

\* the resolved profile has server compute
ServerCompute == framework \in SSRFrameworks

\* the positions of the trace that hold an event of kind op
At(op) == {i \in 1..Len(trace) : trace[i].op = op}

\* the infrastructure update that was applied, if any
Updated == {i \in At("updateStack") : trace[i].ok}

\* stack introspection reports the SiteBucketName output
BucketReported ==
    /\ Len(stack) > 0
    /\ \E i \in 1..Len(stack[1].Outputs) : stack[1].Outputs[i].OutputKey = "SiteBucketName"

\* no describeStacks request was rejected
IntrospectionAnswered == \A i \in At("describeStacks") : trace[i].ok

\* the pre-upload hook has returned or thrown and the update has not begun
AfterPreUpload == pc \in {"deploying", "failed"} /\ At("updateStack") = {}

\* C1: in a deploy of a server-compute profile, the upload command is spawned
\* before the infrastructure update exactly when introspection reports
\* SiteBucketName; without the output nothing is written before the update,
\* and the upload command is spawned after the update
C1_UploadBeforeUpdate ==
    ServerCompute =>
        /\ pc = "deploying" =>
             /\ BucketReported <=> At("spawn") # {}
             /\ ~BucketReported => At("putObject") = {}
        /\ \A u \in At("updateStack") :
             /\ \A i \in At("putObject") \cup At("spawn") :
                  i < u => \E d \in At("describeStacks") : d < i /\ trace[d].ok
        /\ pc = "done" =>
             \E u \in Updated : \E i \in At("spawn") : i > u

C1_Witness ==
    /\ ServerCompute /\ pc = "done"
    /\ \E u \in Updated :
         /\ \E i \in At("putObject") : i < u
         /\ \E i \in At("putObject") : i > u

C1_WitnessFirstDeploy ==
    /\ ServerCompute /\ pc = "done"
    /\ \E u \in Updated :
         /\ \A i \in At("putObject") : i > u
         /\ At("putObject") # {}

\* C2: the pre-upload hook spawns the upload, and so writes one object per
\* regular file, exactly when the profile has server compute and introspection
\* reports SiteBucketName; for a static-only or absent profile, or without the
\* output or the stack, it writes nothing and returns without an error
C2_PreUploadGate ==
    (AfterPreUpload /\ framework \in Frameworks \cup {Null}) =>
        /\ At("putObject") # {} => (ServerCompute /\ BucketReported)
        /\ At("spawn") # {} => (ServerCompute /\ BucketReported)
        /\ (ServerCompute /\ BucketReported /\ IntrospectionAnswered) => At("spawn") # {}
        /\ (ServerCompute /\ BucketReported /\ pc = "deploying") =>
             Cardinality(At("putObject")) = Len(RegularFiles(buildOutput))
        /\ (~(ServerCompute /\ BucketReported) /\ IntrospectionAnswered) =>
             /\ At("putObject") = {}
             /\ pc = "deploying" /\ error = ""

C2_Witness ==
    /\ AfterPreUpload /\ ServerCompute /\ BucketReported
    /\ pc = "deploying"
    /\ Cardinality(At("putObject")) = 2

C2_WitnessSkipped ==
    /\ AfterPreUpload /\ ServerCompute /\ ~BucketReported
    /\ pc = "deploying" /\ At("describeStacks") # {}
    /\ Len(RegularFiles(buildOutput)) = 2

\* the events of the upload command that ran last
LastUpload ==
    IF At("spawn") = {} THEN {}
    ELSE LET s == CHOOSE i \in At("spawn") : \A j \in At("spawn") : j <= i
         IN  {i \in 1..Len(trace) : i > s}

\* an upload command ran after the update, or on its own
UploadRan ==
    \/ pc \in {"uploaded", "upload-failed", "done"}
    \/ pc = "failed" /\ Updated # {}

\* C3: whatever the profile, the upload command is spawned once the
\* infrastructure update has been applied, and when SiteBucketName is absent it
\* fails with a fatal error and has issued no object-store write
C3_PostDeployUpload ==
    /\ (pc \in {"done", "failed"} /\ Updated # {}) =>
         \E u \in Updated : \E i \in At("spawn") : i > u
    /\ \A i \in At("spawn") : \A u \in At("updateStack") : i > u => trace[u].ok
    /\ (UploadRan /\ ~BucketReported) =>
         /\ pc \in {"failed", "upload-failed"}
         /\ error # ""
         /\ IntrospectionAnswered => error = "SiteBucketName output not found"
         /\ \A i \in LastUpload : trace[i].op # "putObject"

C3_Witness ==
    /\ pc = "failed" /\ Updated # {} /\ ~BucketReported
    /\ error = "SiteBucketName output not found"
    /\ framework = "vite"
    /\ Len(RegularFiles(buildOutput)) = 2

-----------------------------------------------------------------------------
(* The emitted topology, as the template holds it *)

Emitted == "SiteDistribution" \in DOMAIN Resources

DC == Resources["SiteDistribution"].Properties.DistributionConfig

\* the path-scoped behaviors and all behaviors of the emitted topology
PathBehaviors == IF "CacheBehaviors" \in DOMAIN DC THEN DC.CacheBehaviors ELSE <<>>

AllBehaviors ==
    (IF "DefaultCacheBehavior" \in DOMAIN DC THEN {DC.DefaultCacheBehavior} ELSE {})
    \cup SeqToSet(PathBehaviors)

OriginIds ==
    IF "Origins" \in DOMAIN DC THEN {DC.Origins[i].Id : i \in 1..Len(DC.Origins)} ELSE {}

OriginGroupsOf ==
    IF "OriginGroups" \in DOMAIN DC THEN SeqToSet(DC.OriginGroups.Items) ELSE {}

slashStar == <<"/", "*">>

\* C4: in every emitted server-compute topology the default behavior targets
\* ServerFunction, and every path-scoped pattern is <name> or <name>/* for a
\* name of the public-directory listing
C4_DefaultIsServerFunction ==
    (Emitted /\ ServerCompute) =>
        /\ DC.DefaultCacheBehavior.TargetOriginId = "ServerFunction"
        /\ \A i \in 1..Len(PathBehaviors) :
             \E j \in 1..Len(buildOutput) :
                PathBehaviors[i].PathPattern
                    \in {buildOutput[j].name, buildOutput[j].name \o slashStar}

C4_Witness ==
    /\ Emitted /\ ServerCompute
    /\ Len(PathBehaviors) = 2
    /\ "Aliases" \in DOMAIN DC
    /\ \E j \in 1..Len(buildOutput) : buildOutput[j].kind = "dir"

\* the pattern the specification gives an entry of the listing
ExpectedPattern(e) == IF e.kind = "dir" THEN e.name \o slashStar ELSE e.name

\* C5 as stated: one behavior per top-level entry of the public directory, in
\* listing order, <name>/* or <name>, each targeting StaticFilesSSR
C5_OnePerEntry ==
    (Emitted /\ ServerCompute) =>
        /\ Len(PathBehaviors) = Len(buildOutput)
        /\ \A i \in 1..Len(PathBehaviors) :
             /\ i <= Len(buildOutput) => PathBehaviors[i].PathPattern = ExpectedPattern(buildOutput[i])
             /\ PathBehaviors[i].TargetOriginId = "StaticFilesSSR"

\* the entries of the listing that are regular files or directories, in order
FilesAndDirs == SelectSeq(buildOutput, LAMBDA e : e.kind \in {"file", "dir"})

\* C5 amended: one behavior per top-level entry that is a regular file or a
\* directory, in listing order, <name>/* for a directory and <name> for a file,
\* each targeting StaticFilesSSR; other entries (symbolic links) get none
C5_OnePerFileOrDirectory ==
    (Emitted /\ ServerCompute) =>
        /\ Len(PathBehaviors) = Len(FilesAndDirs)
        /\ \A i \in 1..Len(PathBehaviors) :
             /\ i <= Len(FilesAndDirs) => PathBehaviors[i].PathPattern = ExpectedPattern(FilesAndDirs[i])
             /\ PathBehaviors[i].TargetOriginId = "StaticFilesSSR"
        /\ (/\ Len(buildOutput) = 2
            /\ buildOutput[1].name = assetsName /\ buildOutput[1].kind = "dir"
            /\ buildOutput[2].name = faviconName /\ buildOutput[2].kind = "file")
           => [i \in 1..Len(PathBehaviors) |-> PathBehaviors[i].PathPattern]
                = <<assetsName \o slashStar, faviconName>>

C5_Witness ==
    /\ Emitted /\ ServerCompute
    /\ Len(buildOutput) = 2
    /\ buildOutput[1].name = assetsName /\ buildOutput[1].kind = "dir"
    /\ buildOutput[2].name = faviconName /\ buildOutput[2].kind = "file"
    /\ Len(PathBehaviors) = 2

\* C6: in every emitted topology the path-scoped behaviors carry pairwise
\* different patterns, and the default behavior carries no pattern and is not
\* an element of the cacheBehaviors list
C6_DistinctPatterns ==
    Emitted =>
        /\ \A i, j \in 1..Len(PathBehaviors) :
             /\ "PathPattern" \in DOMAIN PathBehaviors[i]
             /\ i # j => PathBehaviors[i].PathPattern # PathBehaviors[j].PathPattern
        /\ "DefaultCacheBehavior" \in DOMAIN DC =>
             /\ "PathPattern" \notin DOMAIN DC.DefaultCacheBehavior
             /\ \A i \in 1..Len(PathBehaviors) :
                  PathBehaviors[i] # DC.DefaultCacheBehavior

C6_Witness ==
    /\ Emitted
    /\ Len(PathBehaviors) = 2
    /\ buildOutput[1].kind = "dir" /\ buildOutput[2].kind = "file"
    /\ "FunctionAssociations" \in DOMAIN DC.DefaultCacheBehavior

\* C7: in every emitted topology each behavior targets an origin or origin
\* group of that topology, each origin group has two members that are origins
\* of that topology, and no origin group id is an origin id
C7_ReferencesResolve ==
    Emitted =>
        /\ \A b \in AllBehaviors :
             b.TargetOriginId \in OriginIds \cup {g.Id : g \in OriginGroupsOf}
        /\ \A g \in OriginGroupsOf :
             /\ g.Members.Quantity = 2 /\ Len(g.Members.Items) = 2
             /\ \A k \in 1..Len(g.Members.Items) : g.Members.Items[k].OriginId \in OriginIds
        /\ OriginIds \cap {g.Id : g \in OriginGroupsOf} = {}
        /\ "OriginGroups" \in DOMAIN DC => DC.OriginGroups.Quantity = Len(DC.OriginGroups.Items)

C7_Witness ==
    /\ Emitted /\ ServerCompute
    /\ Len(PathBehaviors) >= 1
    /\ Cardinality(OriginIds) = 2
    /\ OriginGroupsOf # {}

\* an alias set is supplied: the aliases value is a non-empty string or a
\* non-empty list; a certificate is supplied: a non-empty string
AliasSupplied ==
    customConfig.aliases.type # "undefined" /\ Len(customConfig.aliases.value) > 0

CertificateSupplied ==
    IsDefined(customConfig.certificate) /\ Val(customConfig.certificate) # ""

\* C8: the emitted topology has Aliases and ViewerCertificate exactly when both
\* an alias set and a certificate are supplied; with only one of them, or an
\* empty alias value, it has neither
C8_AliasesWithCertificate ==
    Emitted =>
        /\ ("Aliases" \in DOMAIN DC) <=> (AliasSupplied /\ CertificateSupplied)
        /\ ("ViewerCertificate" \in DOMAIN DC) <=> (AliasSupplied /\ CertificateSupplied)

\* C9: the static-only (vite) topology is the fixed SPA shape whatever the
\* build output holds
C9_SpaShape ==
    (Emitted /\ framework = "vite") =>
        /\ [i \in 1..Len(DC.Origins) |-> DC.Origins[i].Id]
             = <<"StaticFiles", "StaticFilesFallback">>
        /\ "OriginPath" \notin DOMAIN DC.Origins[1]
        /\ DC.Origins[2].OriginPath = "/index.html?fallback="
        /\ DC.OriginGroups.Quantity = 1 /\ Len(DC.OriginGroups.Items) = 1
        /\ DC.OriginGroups.Items[1].Id = "StaticFilesSPA"
        /\ DC.OriginGroups.Items[1].Members.Items
             = <<[OriginId |-> "StaticFiles"], [OriginId |-> "StaticFilesFallback"]>>
        /\ SeqToSet(DC.OriginGroups.Items[1].FailoverCriteria.StatusCodes.Items) = {403, 404}
        /\ DC.DefaultCacheBehavior.TargetOriginId = "StaticFilesSPA"
        /\ PathBehaviors = <<>>
        /\ DC.DefaultRootObject = "index.html"

C9_Witness ==
    /\ Emitted /\ framework = "vite"
    /\ Len(buildOutput) = 2
    /\ signals.devDependencies = Some({"vite"})

\* C10: with host forwarding enabled, the default behavior and every behavior
\* targeting ServerFunction or StaticFilesSSR of a server-compute topology has
\* exactly one association, viewer-request to SSRForwardHost, and the template
\* holds the SSRForwardHost resource; a static-only topology has no association
C10_ForwardHostAssociations ==
    (Emitted /\ synth.ran /\ error = "") =>
        /\ (ServerCompute /\ synth.ssrForwardHost \in {Undefined, Some(TRUE)}) =>
             /\ "SSRForwardHost" \in DOMAIN Resources
             /\ Resources["SSRForwardHost"].Type = "AWS::CloudFront::Function"
             /\ \A b \in AllBehaviors :
                  (b = DC.DefaultCacheBehavior
                   \/ b.TargetOriginId \in {"ServerFunction", "StaticFilesSSR"}) =>
                     /\ "FunctionAssociations" \in DOMAIN b
                     /\ b.FunctionAssociations
                          = <<[EventType |-> "viewer-request",
                               FunctionARN |-> "SSRForwardHost"]>>
        /\ framework = "vite" =>
             \A b \in AllBehaviors : "FunctionAssociations" \notin DOMAIN b

C10_Witness ==
    /\ Emitted /\ synth.ran /\ error = "" /\ ServerCompute
    /\ synth.ssrForwardHost = Undefined
    /\ Len(PathBehaviors) = 2

C10_WitnessStatic ==
    /\ Emitted /\ synth.ran /\ error = "" /\ framework = "vite"
    /\ AllBehaviors # {}

-----------------------------------------------------------------------------
(* The build: buildCommand, frameworkBuildEnvironment, build (index.ts 226-309) *)

\* the value a helper returns, or the message of the Error it throws
NoError == <<>>
Return(value, fw) == [error |-> NoError, value |-> value, framework |-> fw]
Throw(message, fw) == [error |-> message, value |-> <<>>, framework |-> fw]

\* `${framework}` in a template literal
frameworkText(fw) ==
    CASE fw = Null           -> <<"n", "u", "l", "l">>
      [] fw = Unsupported    -> <<"a", "s", "t", "r", "o">>
      [] fw = "vite"         -> <<"v", "i", "t", "e">>
      [] fw = "nitro"        -> <<"n", "i", "t", "r", "o">>
      [] fw = "nuxt"         -> <<"n", "u", "x", "t">>
      [] fw = "tanstack-start" -> <<"t", "a", "n", "s", "t", "a", "c", "k", "-", "s", "t", "a", "r", "t">>

\* `${exitCode}` of a one-digit exit code
exitCodeText(exitCode) == <<(<<"0", "1", "2", "3", "4", "5", "6", "7", "8", "9">>)[exitCode + 1]>>

\* the TypeError of `"name" in undefined`
TypeErrorMessage == <<"T", "y", "p", "e", "E", "r", "r", "o", "r", ":", " ", "C", "a", "n", "n", "o", "t", " ", "u", "s", "e", " ", "'", "i", "n", "'", " ", "o", "p", "e", "r", "a", "t", "o", "r">>

\* index.ts 239-241
UnknownPackageManager == <<"U", "n", "k", "n", "o", "w", "n", " ", "p", "a", "c", "k", "a", "g", "e", " ", "m", "a", "n", "a", "g", "e", "r", ",", " ", "s", "p", "e", "c", "i", "f", "y", " ", "b", "u", "i", "l", "d", " ", "c", "o", "m", "m", "a", "n", "d", " ", "m", "a", "n", "u", "a", "l", "l", "y">>

\* index.ts 260-262
UnknownBuildCommand(fw) ==
    <<"U", "n", "k", "n", "o", "w", "n", " ", "b", "u", "i", "l", "d", " ", "c", "o", "m", "m", "a", "n", "d", " ", "f", "o", "r", " ">> \o frameworkText(fw)
        \o <<",", " ", "s", "p", "e", "c", "i", "f", "y", " ", "b", "u", "i", "l", "d", " ", "c", "o", "m", "m", "a", "n", "d", " ", "m", "a", "n", "u", "a", "l", "l", "y">>

\* index.ts 293
NoBuildCommand == <<"N", "o", " ", "b", "u", "i", "l", "d", " ", "c", "o", "m", "m", "a", "n", "d", " ", "g", "i", "v", "e", "n">>

\* index.ts 307
BuildExited(exitCode) == <<"B", "u", "i", "l", "d", " ", "e", "x", "i", "t", "e", "d", " ", "w", "i", "t", "h", " ", "c", "o", "d", "e", " ">> \o exitCodeText(exitCode)

PackageManagers == {"yarn-berry", "yarn-classic", "pnpm", "npm", "bun", "unknown"}

\* a buildCommand value: undefined, a string (its characters) or an array of strings
CommandString(str) == [type |-> "string", value |-> str]
CommandArray(array) == [type |-> "array", value |-> array]
NoCommand == [type |-> "undefined"]

\* packageManagerRunCommand(script)
packageManagerRunCommand(pm, script, fw) ==
    CASE pm \in {"yarn-berry", "yarn-classic"} ->
            Return(CommandArray(<<<<"y", "a", "r", "n">>, <<"r", "u", "n">>, script>>), fw)
      [] pm = "pnpm" -> Return(CommandArray(<<<<"p", "n", "p", "m">>, <<"r", "u", "n">>, script>>), fw)
      [] pm = "npm"  -> Return(CommandArray(<<<<"n", "p", "m">>, <<"r", "u", "n">>, script>>), fw)
      [] pm = "bun"  -> Return(CommandArray(<<<<"b", "u", "n">>, <<"r", "u", "n">>, script>>), fw)
      [] pm = "unknown" -> Throw(UnknownPackageManager, fw)

\* index.ts 246 with only a string taken for a configured command
isConfigured_stringOnly(configured) == configured.type = "string"

\* index.ts 246: this.customConfig.buildCommand !== undefined
isConfigured(configured) == configured.type # "undefined"

\* buildCommand(): the configured value, else the package manager's run command
\* for a detected framework; `framework` is customConfig.framework afterwards
buildCommand(configured, cfgFw, sig, pm) ==
    LET fw == detectFramework(cfgFw, sig)
    IN  IF isConfigured(configured) THEN Return(configured, cfgFw)
        ELSE IF fw = "throw" THEN Throw(TypeErrorMessage, cfgFw)
        ELSE IF fw \in {"tanstack-start", "nuxt", "nitro", "vite"}
        THEN packageManagerRunCommand(pm, <<"b", "u", "i", "l", "d">>, fw)
        ELSE Throw(UnknownBuildCommand(fw), fw)

\* frameworkBuildEnvironment(), for the framework detectFramework returned
frameworkBuildEnvironment(fw) ==
    IF fw \in {"tanstack-start", "nuxt", "nitro"}
    THEN ("NITRO_PRESET" :> "aws-lambda") @@ ("SERVER_PRESET" :> "aws-lambda")
    ELSE EmptyObject

RECURSIVE spread_firstWins(_)
\* { ...a, ...b, ...c } with the first object that has a key winning
spread_firstWins(objects) ==
    IF objects = <<>> THEN EmptyObject
    ELSE objects[1] @@ spread_firstWins(Tail(objects))

RECURSIVE spread(_)
\* { ...a, ...b, ...c }: a key takes the value of the last object that has it
spread(objects) ==
    IF objects = <<>> THEN EmptyObject
    ELSE objects[Len(objects)] @@ spread(SubSeq(objects, 1, Len(objects) - 1))

\* an argument vector that leaves out the empty strings of the split
argumentVector_dropsEmpty(command) ==
    IF command.type = "string"
    THEN SelectSeq(split(command.value, " "), LAMBDA token : token # <<>>)
    ELSE command.value

\* index.ts 285-290: a string is split at each " "
argumentVector(command) ==
    IF command.type = "string" THEN split(command.value, " ") ELSE command.value

\* command.shift() on the array buildCommand() returned: the configured array
\* itself loses its first element, a split string or a generated command does not
afterShift(configured) ==
    IF configured.type = "array" /\ Len(configured.value) > 0
    THEN CommandArray(Tail(configured.value)) ELSE configured

\* the child process: Process collects stdout and stderr until "close"
ProcessResult(exitCode, stdout, stderr) ==
    [exitCode |-> exitCode, stdout |-> stdout, stderr |-> stderr]

\* the outcome of build()
BuildOutcome(events, err, fw, configured) ==
    [events |-> events, error |-> err, framework |-> fw, buildCommand |-> configured]

\* index.ts 304 with the test left out: no exit code fails the build
failed_never(exit) == FALSE

\* index.ts 304: exitCode !== 0
failed(exit) == exit.exitCode # 0

\* console.error / this.log.error of a text
Log(op, text) == Event(op, TRUE, [text |-> text])

\* build(): the command is resolved, split and shifted, the environment merged,
\* the process spawned and awaited; `exit` is what the process answers
build(config, cfgFw, sig, pm, penv, exit) ==
    LET resolved  == buildCommand(config.buildCommand, cfgFw, sig, pm)
        command   == argumentVector(resolved.value)
        fw        == detectFramework(resolved.framework, sig)
        customEnv == IF IsDefined(config.buildEnvironment)
                     THEN Val(config.buildEnvironment) ELSE EmptyObject
        env       == spread(<<penv, frameworkBuildEnvironment(fw), customEnv>>)
        spawned   == Event("child_process.spawn", ~failed(exit),
                           [cmd |-> Head(command), args |-> Tail(command), env |-> env,
                            exitCode |-> exit.exitCode, stdout |-> exit.stdout,
                            stderr |-> exit.stderr])
        closed    == IF exit.exitCode # 0
                     THEN <<Log("console.error", exit.stdout),
                            Log("console.error", exit.stderr)>>
                     ELSE <<>>
    IN  IF resolved.error # NoError
        THEN BuildOutcome(<<>>, resolved.error, resolved.framework, config.buildCommand)
        ELSE IF Len(command) = 0
        THEN BuildOutcome(<<>>, NoBuildCommand, resolved.framework, config.buildCommand)
        ELSE IF fw = "throw"
        THEN BuildOutcome(<<>>, TypeErrorMessage, resolved.framework,
                          afterShift(config.buildCommand))
        ELSE IF failed(exit)
        THEN BuildOutcome(<<spawned>> \o closed
                              \o <<Log("log.error", exit.stdout),
                                   Log("log.error", exit.stderr)>>,
                          BuildExited(exit.exitCode), fw, afterShift(config.buildCommand))
        ELSE BuildOutcome(<<spawned>> \o closed, NoError, fw,
                          afterShift(config.buildCommand))

\* index.ts 496-498 with "vite" among the cases
needsFunction_viteToo(fw) == fw \in {"tanstack-start", "nuxt", "nitro", "vite"}

\* index.ts 496-498: the cases of the switch of addFunctions
needsFunction(fw) == fw \in {"tanstack-start", "nuxt", "nitro"}

\* the function addNitroFunction assigns to functions.server
ServerFunction(config) ==
    [name |-> "service-stage-server", handler |-> "server/index.handler",
     timeout |-> 10, memorySize |-> 1024, events |-> <<>>, url |-> TRUE,
     environment |-> config.ssrEnvironment,
     package |-> [individually |-> TRUE,
                  artifact |-> ".serverless/frontend-function.zip"]]

\* addFunctions(): the functions afterwards, or the TypeError of the detection
addFunctions(config, cfgFw, sig, fns) ==
    LET fw == detectFramework(cfgFw, sig)
    IN  IF fw = "throw"
        THEN [functions |-> fns, error |-> TypeErrorMessage, framework |-> cfgFw]
        ELSE [functions |-> IF needsFunction(fw)
                            THEN ("server" :> ServerFunction(config)) @@ fns ELSE fns,
              error |-> NoError, framework |-> fw]

\* packageFunctions(): the archive written for a framework with a server
packageFunctions(cfgFw, sig) ==
    LET fw == detectFramework(cfgFw, sig)
    IN  IF fw = "throw" THEN BuildOutcome(<<>>, TypeErrorMessage, cfgFw, NoCommand)
        ELSE BuildOutcome(
                 IF fw \in {"tanstack-start", "nuxt", "nitro"}
                 THEN <<Event("archive", TRUE,
                              [file |-> ".serverless/frontend-function.zip",
                               cwd |-> ".output", pattern |-> <<"*", "**/*">>])>>
                 ELSE <<>>,
                 NoError, fw, NoCommand)

\* custom.frontend.buildCommand
BuildCommandConfigs ==
    {NoCommand,
     CommandString(<<"n", "p", "m", " ", "r", "u", "n", " ", "b", "u", "i", "l", "d">>),
     CommandString(<<"n", "p", "m", " ", " ", "b", "u", "i", "l", "d">>),
     CommandString(<<"m", "a", "k", "e", "\t", "s", "i", "t", "e">>),
     CommandString(<<>>),
     CommandArray(<<<<"n", "p", "m">>, <<"b", "u", "i", "l", "d">>>>),
     CommandArray(<<<<"m", "a", "k", "e">>>>),
     CommandArray(<<>>)}

\* custom.frontend.buildEnvironment
BuildEnvironments ==
    {Undefined,
     Some(("API_URL" :> "custom")),
     Some(("NITRO_PRESET" :> "node-server") @@ ("API_URL" :> "custom"))}

\* process.env
ProcessEnvs ==
    {EmptyObject,
     ("PATH" :> "/usr/bin"),
     ("PATH" :> "/usr/bin") @@ ("SERVER_PRESET" :> "inherited")
         @@ ("API_URL" :> "inherited")}

BuildConfigs ==
    {[aliases |-> [type |-> "undefined"], certificate |-> Undefined,
      buildCommand |-> c, buildEnvironment |-> e, ssrEnvironment |-> Undefined] :
        c \in BuildCommandConfigs, e \in BuildEnvironments}

ExitCodes == {0, 1}

\* what the build process writes to stderr
StderrTexts == {<<>>, <<"o", "o", "p", "s">>}

ProcessResults ==
    {ProcessResult(c, <<"o", "u", "t">>, e) : c \in ExitCodes, e \in StderrTexts}

\* the most runs of one command of the plugin in one process
MaxRuns == 2

\* the functions of serverless.yml before the plugin has added its own
ServiceFunctions == {EmptyObject, ("api" :> [handler |-> "api.handler"])}

\* hooks before:package:initialize and before:info:info:
\* spawn("frontend:addFunctions")
AddFunctions ==
    /\ pc \in {"idle", "initialized"}
    /\ Cardinality({i \in 1..Len(trace) : trace[i].op = "spawn"}) < MaxRuns
    /\ LET r == addFunctions(customConfig, framework, signals, functions)
       IN  /\ trace' = Append(trace, Event("spawn", TRUE,
                                           [command |-> "frontend:addFunctions"]))
           /\ functions' = r.functions
           /\ framework' = r.framework
           /\ error' = r.error
           /\ pc' = IF r.error = NoError THEN "initialized" ELSE "failed"
    /\ UNCHANGED <<signals, buildOutput, standardCacheBehaviors, Resources, Outputs,
                   customConfig, synth, stack, bucket, processEnv,
                   packageManager, stackResources>>

\* frontend:build, lifecycle event build; the command is run on its own or
\* from the hooks before:package:createDeploymentArtifacts and
\* before:package:function:package, each of which spawns it
Build ==
    /\ pc \in {"idle", "initialized", "packaged"}
    /\ Cardinality({i \in 1..Len(trace) : trace[i].op = "child_process.spawn"}) < MaxRuns
    /\ \E exit \in ProcessResults :
         LET r == build(customConfig, framework, signals, packageManager, processEnv,
                        exit)
         IN  /\ trace' = trace \o r.events
             /\ framework' = r.framework
             /\ customConfig' = [customConfig EXCEPT !.buildCommand = r.buildCommand]
             /\ error' = r.error
             /\ pc' = IF r.error = NoError THEN "built" ELSE "failed"
    /\ UNCHANGED <<signals, buildOutput, standardCacheBehaviors, Resources, Outputs,
                   synth, stack, bucket>>
    /\ UNCHANGED hostVars

\* frontend:build, lifecycle event package: the host runs it once build returned
PackageFunctions ==
    /\ pc = "built"
    /\ LET r == packageFunctions(framework, signals)
       IN  /\ trace' = trace \o r.events
           /\ framework' = r.framework
           /\ error' = r.error
           /\ pc' = IF r.error = NoError THEN "packaged" ELSE "failed"
    /\ UNCHANGED <<signals, buildOutput, standardCacheBehaviors, Resources, Outputs,
                   customConfig, synth, stack, bucket>>
    /\ UNCHANGED hostVars

BuildInit ==
    /\ framework \in FrameworkConfigs
    /\ signals \in (IF framework = NoFramework THEN Projects ELSE {NoProject})
    /\ customConfig \in BuildConfigs
    /\ packageManager \in (IF customConfig.buildCommand = NoCommand
                           THEN PackageManagers ELSE {"npm", "unknown"})
    /\ processEnv \in ProcessEnvs
    /\ buildOutput = <<>>
    /\ standardCacheBehaviors = StandardCacheBehaviors
    /\ Resources = EmptyObject
    /\ Outputs = {}
    /\ synth = NoSynthesis
    /\ stack = NoStack
    /\ stackResources = <<>>
    /\ functions \in ServiceFunctions
    /\ bucket = EmptyObject
    /\ trace = <<>>
    /\ pc = "idle"
    /\ error = NoError

BuildNext == AddFunctions \/ Build \/ PackageFunctions

BuildSpec == BuildInit /\ [][BuildNext]_vars

-----------------------------------------------------------------------------
(* Properties of the build *)

\* `part` occurs in `text`
Contains(text, part) ==
    \E i \in 0..(Len(text) - Len(part)) : SubSeq(text, i + 1, i + Len(part)) = part

\* the build processes that exited with a non-zero code
FailedBuilds == {i \in At("child_process.spawn") : trace[i].params.exitCode # 0}

\* C11, as stated: when the build process exits with a non-zero code the build
\* fails with an error that contains the captured stderr text, and the package
\* phase of the chain is never invoked.
C11_ErrorContainsStderr ==
    \A i \in FailedBuilds :
        /\ pc = "failed"
        /\ Contains(error, trace[i].params.stderr)
        /\ At("archive") = {}

\* C11, amended: when the build process exits with a non-zero code the build
\* writes the captured stdout and stderr to the log and then fails with the
\* error "Build exited with code <n>", which names the exit code and does not
\* carry the stderr text; the chain ends there, the package phase is never
\* invoked after it.
C11_BuildFailureEndsChain ==
    \A i \in FailedBuilds :
        /\ pc = "failed"
        /\ error = <<"B", "u", "i", "l", "d", " ", "e", "x", "i", "t", "e", "d", " ", "w", "i", "t", "h", " ", "c", "o", "d", "e", " ">> \o exitCodeText(trace[i].params.exitCode)
        /\ \E j \in At("log.error") :
              j > i /\ trace[j].params.text = trace[i].params.stderr
        /\ \E j \in At("log.error") :
              j > i /\ trace[j].params.text = trace[i].params.stdout
        /\ trace[i].params.stderr # <<>> => ~Contains(error, trace[i].params.stderr)
        /\ \A j \in At("archive") : j < i

\* a server framework's build wrote to stderr and exited with code 1
C11_Witness ==
    /\ framework \in SSRFrameworks
    /\ pc = "failed"
    /\ \E i \in FailedBuilds :
          /\ trace[i].params.stderr = <<"o", "o", "p", "s">>
          /\ trace[i].params.cmd = <<"n", "p", "m">>
          /\ trace[i].params.args = <<<<"b", "u", "i", "l", "d">>>>

\* the three layers of the build environment, in the state after the build
customLayer ==
    IF IsDefined(customConfig.buildEnvironment)
    THEN Val(customConfig.buildEnvironment) ELSE EmptyObject

PresetNames == IF ServerCompute THEN {"NITRO_PRESET", "SERVER_PRESET"} ELSE {}

\* C12: the environment of the build process has every variable of the three
\* layers; an explicit buildEnvironment value wins over the framework's preset
\* (NITRO_PRESET / SERVER_PRESET = aws-lambda for a framework with a server),
\* which wins over the inherited process environment; a variable of one layer
\* only is passed through unchanged.
C12_EnvironmentLayers ==
    \A i \in At("child_process.spawn") :
        LET env == trace[i].params.env
        IN  /\ DOMAIN env = DOMAIN processEnv \cup PresetNames \cup DOMAIN customLayer
            /\ \A name \in DOMAIN env :
                  env[name] = IF name \in DOMAIN customLayer THEN customLayer[name]
                              ELSE IF name \in PresetNames THEN "aws-lambda"
                              ELSE processEnv[name]

\* every pair of layers collides on some variable, and one variable is inherited
C12_Witness ==
    /\ ServerCompute
    /\ "SERVER_PRESET" \in DOMAIN processEnv
    /\ "API_URL" \in DOMAIN processEnv
    /\ "NITRO_PRESET" \in DOMAIN customLayer
    /\ \E i \in At("child_process.spawn") :
          /\ trace[i].params.env["NITRO_PRESET"] = "node-server"
          /\ trace[i].params.env["SERVER_PRESET"] = "aws-lambda"
          /\ trace[i].params.env["API_URL"] = "custom"
          /\ trace[i].params.env["PATH"] = "/usr/bin"

\* the step is a build that spawned its process
SpawnStep ==
    /\ Len(trace') > Len(trace)
    /\ trace'[Len(trace) + 1].op = "child_process.spawn"

\* the argument vector of the process the step spawned
spawnedVector ==
    <<trace'[Len(trace) + 1].params.cmd>> \o trace'[Len(trace) + 1].params.args

Whitespace == {" ", "\t"}

RECURSIVE joined(_, _)
\* the tokens with `sep` between them
joined(tokens, sep) ==
    IF Len(tokens) = 0 THEN <<>>
    ELSE IF Len(tokens) = 1 THEN tokens[1]
    ELSE tokens[1] \o <<sep>> \o joined(Tail(tokens), sep)

\* C20, as stated: a buildCommand given as a string is executed as the vector of
\* its whitespace-separated tokens, none of them empty; a buildCommand given as
\* a list is executed with exactly that list.
C20_SplitOnWhitespace ==
    [][SpawnStep =>
         /\ customConfig.buildCommand.type = "string" =>
               \A k \in 1..Len(spawnedVector) :
                   /\ spawnedVector[k] # <<>>
                   /\ \A c \in Whitespace : c \notin SeqToSet(spawnedVector[k])
         /\ customConfig.buildCommand.type = "array" =>
               spawnedVector = customConfig.buildCommand.value]_vars

\* C20, amended: a buildCommand given as a string is executed as the vector
\* obtained by cutting it at every single space character: the tokens hold no
\* space and, put together with one space between neighbours, give the string
\* back (so two spaces in a row give an empty token, and a tab separates
\* nothing); the first token is the executable and the rest its arguments.  A
\* buildCommand given as a list is executed with exactly that list.
C20_SplitAtEachSpace ==
    [][SpawnStep =>
         /\ customConfig.buildCommand.type = "string" =>
               /\ joined(spawnedVector, " ") = customConfig.buildCommand.value
               /\ \A k \in 1..Len(spawnedVector) : " " \notin SeqToSet(spawnedVector[k])
         /\ customConfig.buildCommand.type = "array" =>
               spawnedVector = customConfig.buildCommand.value]_vars

\* the string "npm  build" was executed as npm with the arguments "" and "build"
C20_Witness ==
    /\ customConfig.buildCommand = CommandString(<<"n", "p", "m", " ", " ", "b", "u", "i", "l", "d">>)
    /\ \E i \in At("child_process.spawn") :
          /\ trace[i].params.cmd = <<"n", "p", "m">>
          /\ trace[i].params.args = <<(<<>>), <<"b", "u", "i", "l", "d">>>>

\* the list [npm, build] was executed as npm with the argument "build"
C20_WitnessList ==
    /\ customConfig.buildCommand = CommandArray(<<<<"b", "u", "i", "l", "d">>>>)
    /\ \E i \in At("child_process.spawn") :
          /\ trace[i].params.cmd = <<"n", "p", "m">>
          /\ trace[i].params.args = <<<<"b", "u", "i", "l", "d">>>>

-----------------------------------------------------------------------------
(* Teardown and invalidation: emptySiteBucket, deleteObjects, listObjectsV2, *)
(* createInvalidation (index.ts 608-725)                                    *)

\* the longest trace a sequence of teardown and invalidate commands may leave
MaxRequests == 4

\* a resource of the describeStackResources answer; the physical id is absent
\* until CloudFormation has created the resource
StackResource(logicalId, physicalId) ==
    [LogicalResourceId |-> logicalId, PhysicalResourceId |-> physicalId]

DeploymentBucket ==
    StackResource("ServerlessDeploymentBucket", Some("deployment-bucket"))

StackResourceStates ==
    {<<DeploymentBucket>>,
     <<DeploymentBucket, StackResource("SiteBucket", Some("site-bucket")),
       StackResource("SiteDistribution", Some("E2DISTRIBUTION"))>>,
     <<DeploymentBucket, StackResource("SiteBucket", Some("site-bucket"))>>,
     <<DeploymentBucket, StackResource("SiteDistribution", Some("E2DISTRIBUTION"))>>,
     <<DeploymentBucket, StackResource("SiteBucket", Undefined),
       StackResource("SiteDistribution", Undefined)>>}

\* StackResources.find(...)?.PhysicalResourceId with the test on the logical id
\* left out: the first resource of the stack is taken
physicalResourceId_firstResource(resources, logicalId) ==
    IF resources = <<>> THEN Undefined ELSE resources[1].PhysicalResourceId

\* StackResources.find((resource) => resource.LogicalResourceId === logicalId)
\*     ?.PhysicalResourceId
physicalResourceId(resources, logicalId) ==
    IF \E i \in 1..Len(resources) : resources[i].LogicalResourceId = logicalId
    THEN LET i == CHOOSE k \in 1..Len(resources) :
                      /\ resources[k].LogicalResourceId = logicalId
                      /\ \A j \in 1..(k - 1) : resources[j].LogicalResourceId # logicalId
         IN  resources[i].PhysicalResourceId
    ELSE Undefined

\* an error of the provider that a handler lets through
ProviderError(code) == <<"ProviderError", code>>

\* index.ts 656-658
CouldNotList(code) ==
    <<"Could not list objects in the deployment bucket. Make sure you have sufficient permissions to access it. [",
      code, "]">>

\* index.ts 690-692
CouldNotEmptyDenied(bucketName, code) ==
    <<"Could not empty the S3 deployment bucket (", bucketName,
      "). Make sure that you have permissions that allow S3 objects deletion. First encountered S3 error code: ",
      code, " [CANNOT_DELETE_S3_OBJECTS_ACCESS_DENIED]">>

\* index.ts 695-697
CouldNotEmptyGeneric(bucketName, code) ==
    <<"Could not empty the S3 deployment bucket (", bucketName,
      "). First encountered S3 error code: ", code,
      " [CANNOT_DELETE_S3_OBJECTS_GENERIC]">>

RECURSIVE keyList(_)
\* the keys of a listObjectsV2 answer, one page
keyList(keys) ==
    IF keys = {} THEN <<>>
    ELSE LET k == CHOOSE x \in keys : TRUE
         IN  <<[Key |-> k]>> \o keyList(keys \ {k})

\* the bucket without the objects of `keys`
without(objs, keys) == [k \in (DOMAIN objs) \ keys |-> objs[k]]

\* what the handlers of a command answer with
Result(events, objs, err) == [events |-> events, bucket |-> objs, error |-> err]

\* the codes of the Errors entries of a deleteObjects answer
DeleteErrorCodes == {"AccessDenied", "InternalError"}

\* the most keys one listObjectsV2 answer holds
PageSize == 2

\* the pages S3 may answer a list request with: the first PageSize keys of
\* the bucket in its listing order, all keys when there are no more
Pages(objs) ==
    {page \in SUBSET (DOMAIN objs) :
        Cardinality(page) = IF Cardinality(DOMAIN objs) < PageSize
                            THEN Cardinality(DOMAIN objs) ELSE PageSize}

\* the Errors a deleteObjects answer may report for the keys of a page
DeleteErrors(page) ==
    {errors \in UNION {[1..n -> [Key : page, Code : DeleteErrorCodes]] :
                          n \in 0..Cardinality(page)} :
        \A a, b \in 1..Len(errors) : a # b => errors[a].Key # errors[b].Key}

\* index.ts 679 with the test left out: the delete request is always sent
hasObjects_always(objectsInBucket) == TRUE

\* index.ts 679: if (objectsInBucket.length)
hasObjects(objectsInBucket) == Len(objectsInBucket) > 0

\* index.ts 689 with the test never true
isAccessDenied_never(firstErrorCode) == FALSE

\* index.ts 689: firstErrorCode === "AccessDenied"
isAccessDenied(firstErrorCode) == firstErrorCode = "AccessDenied"

\* deleteObjects(bucketName), with listObjects / listObjectsV2.  The provider
\* answers the list request with `list` ("ok" or the code of its rejection)
\* and the keys of `page`, and the delete request with `delete` ("ok" or
\* "rejected") and the entries `Errors` for the keys it did not delete.  The
\* events hold the answers (Answer and Contents, Errors) beside the requests.
deleteObjects(bucketName, objs, list, page, delete, Errors) ==
    LET objectsInBucket == keyList(page)
        listed   == Event("listObjectsV2", list = "ok",
                          [Bucket |-> bucketName, Prefix |-> "", Answer |-> list,
                           Contents |-> IF list = "ok" THEN objectsInBucket ELSE <<>>])
        deleted  == Event("deleteObjects", delete = "ok",
                          [Bucket |-> bucketName, Objects |-> objectsInBucket,
                           Errors |-> IF delete = "ok" THEN Errors ELSE <<>>])
        left     == without(objs, page \ {Errors[i].Key : i \in 1..Len(Errors)})
    IN  IF list = "AWS_S3_LIST_OBJECTS_V2_ACCESS_DENIED"
        THEN Result(<<listed>>, objs, CouldNotList(list))
        ELSE IF list # "ok" THEN Result(<<listed>>, objs, ProviderError(list))
        ELSE IF ~hasObjects(objectsInBucket) THEN Result(<<listed>>, objs, NoError)
        ELSE IF delete # "ok"
        THEN Result(<<listed, deleted>>, objs, ProviderError("rejected"))
        ELSE IF Len(Errors) = 0 THEN Result(<<listed, deleted>>, left, NoError)
        ELSE IF isAccessDenied(Errors[1].Code)
        THEN Result(<<listed, deleted>>, left,
                    CouldNotEmptyDenied(bucketName, Errors[1].Code))
        ELSE Result(<<listed, deleted>>, left,
                    CouldNotEmptyGeneric(bucketName, Errors[1].Code))

\* emptySiteBucket(); `describe` is whether describeStackResources answers
emptySiteBucket(resources, objs, describe, list, page, delete, Errors) ==
    LET described  == Event("describeStackResources", describe, EmptyObject)
        bucketName == physicalResourceId(resources, "SiteBucket")
        emptied    == deleteObjects(Val(bucketName), objs, list, page, delete, Errors)
    IN  IF ~describe THEN Result(<<described>>, objs, ProviderError("rejected"))
        ELSE IF IsDefined(bucketName)
        THEN [emptied EXCEPT !.events = <<described>> \o @]
        ELSE Result(<<described,
                      Log("log.info",
                          "Site S3 bucket not found. Skipping S3 bucket objects removal")>>,
                    objs, NoError)

\* the batch of index.ts 629-635, with one path per page of the site
InvalidationBatch_indexOnly(now) ==
    [CallerReference |-> now, Paths |-> [Quantity |-> 1, Items |-> <<"/index.html">>]]

\* index.ts 629-635
InvalidationBatch(now) ==
    [CallerReference |-> now, Paths |-> [Quantity |-> 1, Items |-> <<"/*">>]]

\* createInvalidation(); `create` is whether CloudFront accepts the request,
\* `now` is new Date().toISOString()
createInvalidation(resources, objs, describe, create, now) ==
    LET described      == Event("describeStackResources", describe, EmptyObject)
        distributionId == physicalResourceId(resources, "SiteDistribution")
        created        == Event("createInvalidation", create,
                                [DistributionId |-> Val(distributionId),
                                 InvalidationBatch |-> InvalidationBatch(now)])
    IN  IF ~describe THEN Result(<<described>>, objs, ProviderError("rejected"))
        ELSE IF ~IsDefined(distributionId) THEN Result(<<described>>, objs, NoError)
        ELSE IF ~create THEN Result(<<described, created>>, objs, ProviderError("rejected"))
        ELSE Result(<<described, created>>, objs, NoError)

\* the answers of S3 to a list request
ListAnswers == {"ok", "AWS_S3_LIST_OBJECTS_V2_ACCESS_DENIED", "SlowDown"}

Instants == {"2026-01-01T00:00:00.000Z"}

\* a second object of the site bucket
indexKey == <<"i", "n", "d", "e", "x", ".", "h", "t", "m", "l">>

\* a third object of the site bucket
bundleKey == assetsName \o <<"/">> \o appJsName

SiteObjects ==
    {EmptyObject, OldObjects,
     (indexKey :> [Body |-> "v0", CacheControl |-> StandardCacheControl.normal,
                   ContentType |-> "text/html"]) @@ OldObjects,
     (bundleKey :> [Body |-> "v0", CacheControl |-> StandardCacheControl.immutable,
                    ContentType |-> "text/javascript"])
        @@ (indexKey :> [Body |-> "v0", CacheControl |-> StandardCacheControl.normal,
                         ContentType |-> "text/html"]) @@ OldObjects}

\* hook before:remove:remove
EmptySiteBucket ==
    /\ Len(trace) < MaxRequests
    /\ \E describe \in BOOLEAN, list \in ListAnswers, delete \in {"ok", "rejected"},
          page \in Pages(bucket) :
         \E Errors \in DeleteErrors(page) :
         LET r == emptySiteBucket(stackResources, bucket, describe, list, page, delete,
                                  Errors)
         IN  /\ trace' = trace \o r.events
             /\ bucket' = r.bucket
             /\ error' = r.error
             /\ pc' = "remove"
    /\ UNCHANGED <<framework, signals, buildOutput, standardCacheBehaviors, Resources,
                   Outputs, customConfig, synth, stack>>
    /\ UNCHANGED hostVars

\* the command frontend:invalidate
CreateInvalidation ==
    /\ Len(trace) < MaxRequests
    /\ \E describe \in BOOLEAN, create \in BOOLEAN, now \in Instants :
         LET r == createInvalidation(stackResources, bucket, describe, create, now)
         IN  /\ trace' = trace \o r.events
             /\ bucket' = r.bucket
             /\ error' = r.error
             /\ pc' = "invalidate"
    /\ UNCHANGED <<framework, signals, buildOutput, standardCacheBehaviors, Resources,
                   Outputs, customConfig, synth, stack>>
    /\ UNCHANGED hostVars

MaintInit ==
    /\ stackResources \in StackResourceStates
    /\ bucket \in SiteObjects
    /\ framework = NoFramework
    /\ signals = NoProject
    /\ buildOutput = <<>>
    /\ customConfig = [aliases |-> [type |-> "undefined"], certificate |-> Undefined]
    /\ standardCacheBehaviors = StandardCacheBehaviors
    /\ Resources = EmptyObject
    /\ Outputs = {}
    /\ synth = NoSynthesis
    /\ stack = NoStack
    /\ processEnv = EmptyObject
    /\ packageManager = "unknown"
    /\ functions = EmptyObject
    /\ trace = <<>>
    /\ pc = "idle"
    /\ error = NoError

MaintNext == EmptySiteBucket \/ CreateInvalidation

MaintSpec == MaintInit /\ [][MaintNext]_vars

-----------------------------------------------------------------------------
(* Properties of teardown and invalidation *)

\* the stack resources include one of the logical id
Listed(logicalId) ==
    \E i \in 1..Len(stackResources) : stackResources[i].LogicalResourceId = logicalId

\* the physical ids the stack resources give for the logical id
PhysicalIds(logicalId) ==
    {Val(stackResources[i].PhysicalResourceId) : i \in
        {j \in 1..Len(stackResources) :
            /\ stackResources[j].LogicalResourceId = logicalId
            /\ IsDefined(stackResources[j].PhysicalResourceId)}}

\* C13: on a stack whose resources include no SiteBucket, teardown issues no
\* list request and no delete request to the object store, and once stack
\* introspection has answered it completes without error.
C13_TeardownWithoutBucket ==
    ~Listed("SiteBucket") =>
        /\ At("listObjectsV2") = {}
        /\ At("deleteObjects") = {}
        /\ pc = "remove" /\ trace[Len(trace)].ok => error = NoError

\* teardown ran to its end on a stack without the bucket resource, while the
\* site bucket of an earlier stack still holds objects
C13_Witness ==
    /\ ~Listed("SiteBucket")
    /\ pc = "remove"
    /\ error = NoError
    /\ bucket # EmptyObject
    /\ trace[Len(trace)].op = "log.info"
    /\ trace[Len(trace) - 1].op = "describeStackResources"

\* the step is a run of the invalidate command
InvalidateStep == pc' = "invalidate" /\ Len(trace') > Len(trace)

\* the requests of the step
requested == SubSeq(trace', Len(trace) + 1, Len(trace'))

\* C14: once stack introspection has answered, the invalidate command issues
\* exactly one invalidation request, for the single path /*, against the
\* physical id of SiteDistribution when the stack has it, and issues no
\* invalidation request and raises no error when it has not.
C14_InvalidateOnce ==
    [][InvalidateStep /\ requested[1].ok =>
         /\ requested[1].op = "describeStackResources"
         /\ IF PhysicalIds("SiteDistribution") # {}
            THEN /\ Len(requested) = 2
                 /\ requested[2].op = "createInvalidation"
                 /\ requested[2].params.DistributionId \in PhysicalIds("SiteDistribution")
                 /\ requested[2].params.InvalidationBatch.Paths =
                        [Quantity |-> 1, Items |-> <<"/*">>]
                 /\ requested[2].ok => error' = NoError
            ELSE /\ Len(requested) = 1
                 /\ error' = NoError]_vars

\* the invalidation of /* was requested for the distribution of the stack
C14_Witness ==
    /\ pc = "invalidate"
    /\ error = NoError
    /\ trace[Len(trace)].op = "createInvalidation"
    /\ trace[Len(trace)].params.DistributionId = "E2DISTRIBUTION"

\* the command ended without a request on a stack that has no distribution
C14_WitnessAbsent ==
    /\ pc = "invalidate"
    /\ error = NoError
    /\ ~Listed("SiteDistribution")
    /\ trace[Len(trace)].op = "describeStackResources"
    /\ trace[Len(trace)].ok

-----------------------------------------------------------------------------
(* The upload command, run again on the same build output *)

\* the most runs of the upload command in one process
MaxUploads == 2

indexHtmlName == <<"i", "n", "d", "e", "x", ".", "h", "t", "m", "l">>
hashedJsName == <<"a", "p", "p", ".", "3", "f", "2", "a", ".", "j", "s">>

\* the entries of a site's build output: pages, hashed bundles in assets/ or
\* _nuxt/, a file that is only named like the bundle directory, a link
SiteEntries ==
    {[name |-> indexHtmlName, kind |-> "file", content |-> "v1", children |-> <<>>],
     [name |-> assetsName, kind |-> "dir", content |-> "v1",
      children |-> <<[name |-> hashedJsName, kind |-> "file", content |-> "v1"]>>],
     [name |-> assetsName, kind |-> "file", content |-> "v1", children |-> <<>>],
     [name |-> nuxtName, kind |-> "dir", content |-> "v1",
      children |-> <<[name |-> hashedJsName, kind |-> "file", content |-> "v1"]>>],
     [name |-> faviconName, kind |-> "symlink", content |-> "v1", children |-> <<>>]}

SiteListings ==
    {s \in UNION {[1..n -> SiteEntries] : n \in 0..MaxEntries} : DistinctNames(s)}

\* the command `frontend upload`, or the upload a hook spawns, run in a process
\* that may have run it before
Upload ==
    /\ pc \in {"idle", "uploaded", "upload-failed"}
    /\ Cardinality(At("spawn")) < MaxUploads
    /\ \E failAt \in FailPoints(buildOutput) :
         LET r == spawnUpload(framework, signals, buildOutput, stack, bucket, failAt)
         IN  /\ trace' = trace \o r.events
             /\ bucket' = r.bucket
             /\ framework' = r.framework
             /\ error' = r.error
             /\ pc' = IF r.error = "" THEN "uploaded" ELSE "upload-failed"
    /\ UNCHANGED <<signals, buildOutput, standardCacheBehaviors, Resources, Outputs,
                   customConfig, synth, stack>>
    /\ UNCHANGED hostVars

UploadInit ==
    /\ framework \in FrameworkConfigs
    /\ signals \in (IF framework = NoFramework THEN DeployProjects ELSE {NoProject})
    /\ buildOutput \in SiteListings
    /\ customConfig = [aliases |-> [type |-> "undefined"], certificate |-> Undefined]
    /\ standardCacheBehaviors = StandardCacheBehaviors
    /\ Resources = EmptyObject
    /\ Outputs = TemplateOutputs
    /\ synth = NoSynthesis
    /\ stack = stackAfterUpdate(TemplateOutputs)
    /\ bucket \in {EmptyObject, OldObjects}
    /\ processEnv = EmptyObject
    /\ packageManager = "unknown"
    /\ stackResources = <<>>
    /\ functions = EmptyObject
    /\ trace = <<>>
    /\ pc = "idle"
    /\ error = ""

UploadNext == Upload

UploadSpec == UploadInit /\ [][UploadNext]_vars

-----------------------------------------------------------------------------
(* Properties of the upload *)

\* C15: a run of the upload step that follows a completed run, with the build
\* output and the profile unchanged, leaves the object store as the completed
\* run left it: the same keys, each with the same bytes, cache-control and
\* content type.
C15_UploadIdempotent ==
    [][pc = "uploaded" /\ Len(trace') > Len(trace) => bucket' = bucket]_vars

\* two complete runs have each written every regular file of a build output
\* that holds hashed bundles, beside an object of an earlier deployment
C15_Witness ==
    /\ pc = "uploaded"
    /\ Cardinality(At("spawn")) = 2
    /\ Cardinality(At("putObject")) = 4
    /\ \A i \in At("putObject") : trace[i].ok
    /\ oldKey \in DOMAIN bucket
    /\ (nuxtName \o <<"/">> \o hashedJsName) \in DOMAIN bucket
    /\ framework = "nuxt"

\* `str` starts with `prefix`
StartsWith(str, prefix) ==
    Len(str) >= Len(prefix) /\ \A i \in 1..Len(prefix) : str[i] = prefix[i]

\* the immutable-asset prefixes of the resolved profile
ImmutablePrefixes ==
    CASE framework = "nuxt" -> {nuxtName \o <<"/">>}
      [] framework \in {"tanstack-start", "nitro", "vite"} -> {assetsName \o <<"/">>}
      [] OTHER -> {}

\* the class of a put request
Class(i) ==
    CASE trace[i].params.CacheControl = "public,max-age=31536000,immutable" -> "immutable"
      [] trace[i].params.CacheControl =
            "public,max-age=0,s-maxage=86400,stale-while-revalidate=8640" -> "normal"
      [] OTHER -> "none"

\* C16: an asset is uploaded as immutable exactly when its key starts with the
\* immutable-asset prefix of the resolved profile (_nuxt/ for nuxt; assets/ for
\* tanstack-start, nitro and vite) and as normal otherwise; for vite
\* assets/app.3f2a.js is immutable and index.html normal; the same key is given
\* the same class and content type every time it is classified.
C16_CacheControlClass ==
    /\ \A i \in At("putObject") :
          Class(i) = IF \E p \in ImmutablePrefixes : StartsWith(trace[i].params.Key, p)
                     THEN "immutable" ELSE "normal"
    /\ framework = "vite" =>
          \A i \in At("putObject") :
              /\ trace[i].params.Key = assetsName \o <<"/">> \o hashedJsName
                    => Class(i) = "immutable"
              /\ trace[i].params.Key = indexHtmlName => Class(i) = "normal"
    /\ \A i, j \in At("putObject") :
          trace[i].params.Key = trace[j].params.Key =>
              /\ Class(i) = Class(j)
              /\ trace[i].params.ContentType = trace[j].params.ContentType

\* a vite site: the hashed bundle and the page were both uploaded, twice
C16_Witness ==
    /\ framework = "vite"
    /\ \E i, j \in At("putObject") :
          /\ i < j
          /\ trace[i].params.Key = assetsName \o <<"/">> \o hashedJsName
          /\ trace[j].params.Key = trace[i].params.Key
          /\ Class(i) = "immutable"
    /\ \E i \in At("putObject") :
          trace[i].params.Key = indexHtmlName /\ Class(i) = "normal"

\* a file named like the bundle directory is not under the prefix
C16_WitnessNoSlash ==
    \E i \in At("putObject") :
        /\ trace[i].params.Key = assetsName
        /\ Class(i) = "normal"
        /\ framework = "nitro"

-----------------------------------------------------------------------------
(* Framework resolution over the phases of one run *)

\* the most calls of detectFramework in one run
MaxCalls == 3

\* the dependencies detectFramework looks for
KnownDependencies == {"@tanstack/react-start", "nuxt", "nitro", "vite"}

\* every project: package.json with or without each section, the marker file
AllProjects ==
    {Project(deps, dev, marker) :
        deps \in {Undefined} \cup {Some(d) : d \in SUBSET KnownDependencies},
        dev \in {Undefined, Some({}), Some({"vite"})},
        marker \in BOOLEAN}

\* a phase calls detectFramework()
DetectFramework ==
    /\ Len(trace) < MaxCalls
    /\ LET returned == detectFramework(framework, signals)
       IN  /\ trace' = Append(trace,
                         Event("detectFramework", returned # "throw",
                               [stored |-> framework, signals |-> signals,
                                returned |-> returned]))
           /\ framework' = frameworkAfterDetect(framework, signals)
           /\ error' = IF returned = "throw" THEN "TypeError" ELSE ""
    /\ UNCHANGED <<signals, buildOutput, standardCacheBehaviors, Resources, Outputs,
                   customConfig, synth, stack, bucket, pc>>
    /\ UNCHANGED hostVars

\* between two phases package.json or nuxt.config.ts is rewritten
ChangeSignals ==
    /\ signals' \in Projects \ {signals}
    /\ UNCHANGED <<framework, buildOutput, standardCacheBehaviors, Resources, Outputs,
                   customConfig, synth, stack, bucket, trace, pc, error>>
    /\ UNCHANGED hostVars

DetectInit ==
    /\ framework \in FrameworkConfigs
    /\ signals \in AllProjects
    /\ buildOutput = <<>>
    /\ customConfig = [aliases |-> [type |-> "undefined"], certificate |-> Undefined]
    /\ standardCacheBehaviors = StandardCacheBehaviors
    /\ Resources = EmptyObject
    /\ Outputs = {}
    /\ synth = NoSynthesis
    /\ stack = NoStack
    /\ bucket = EmptyObject
    /\ processEnv = EmptyObject
    /\ packageManager = "unknown"
    /\ stackResources = <<>>
    /\ functions = EmptyObject
    /\ trace = <<>>
    /\ pc = "idle"
    /\ error = ""

DetectNext == DetectFramework \/ ChangeSignals

DetectSpec == DetectInit /\ [][DetectNext]_vars

-----------------------------------------------------------------------------
(* Properties of framework resolution *)

\* package.json declares the dependency in the section (an absent section
\* declares nothing)
Declares(section, name) == IsDefined(section) /\ name \in Val(section)

\* the profile the fixed priority gives the signals
Priority(sig) ==
    IF Declares(sig.dependencies, "@tanstack/react-start") THEN "tanstack-start"
    ELSE IF Declares(sig.dependencies, "nuxt") \/ sig.nuxtConfig THEN "nuxt"
    ELSE IF Declares(sig.dependencies, "nitro") THEN "nitro"
    ELSE IF Declares(sig.dependencies, "vite") \/ Declares(sig.devDependencies, "vite")
    THEN "vite"
    ELSE Null

\* the calls that found no override and no stored result
Detections == {i \in At("detectFramework") : trace[i].params.stored = NoFramework}

\* C17, as stated: without an override, detection gives the profile of the
\* fixed priority over the project signals: tanstack-start for the tanstack
\* dependency, else nuxt for the nuxt dependency or marker file, else nitro,
\* else vite for a vite dependency, else none.
C17_DetectionPriority ==
    \A i \in Detections :
        /\ trace[i].ok
        /\ trace[i].params.returned = Priority(trace[i].params.signals)

\* C17, for a package.json that has both sections: detection gives the profile
\* of the fixed priority.
C17_PriorityWithBothSections ==
    \A i \in Detections :
        IsDefined(trace[i].params.signals.dependencies)
            /\ IsDefined(trace[i].params.signals.devDependencies)
        => /\ trace[i].ok
           /\ trace[i].params.returned = Priority(trace[i].params.signals)

\* a project with the tanstack dependency and the nuxt marker file was detected
C17_WitnessTanstackOverMarker ==
    \E i \in Detections :
        /\ Declares(trace[i].params.signals.dependencies, "@tanstack/react-start")
        /\ trace[i].params.signals.nuxtConfig
        /\ trace[i].params.returned = "tanstack-start"

\* C18: within one run every call of framework resolution that returns gives
\* the profile the first such call gave: an override (null and unknown
\* identifiers included) is returned as it is, whatever the project signals
\* are, and a detected result (none included) is stored and returned by every
\* later call even when the signals have changed.
C18_ResolutionIsStable ==
    /\ \A i, j \in At("detectFramework") :
          trace[i].ok /\ trace[j].ok =>
              trace[i].params.returned = trace[j].params.returned
    /\ \A i \in At("detectFramework") :
          trace[i].params.stored # NoFramework =>
              /\ trace[i].ok
              /\ trace[i].params.returned = trace[i].params.stored
    /\ \A i \in At("detectFramework") :
          trace[i].ok => framework = trace[i].params.returned

\* none was detected, the project then became a nuxt project, and the next call
\* still returned none
C18_Witness ==
    \E i, j \in At("detectFramework") :
        /\ i < j
        /\ trace[i].params.stored = NoFramework
        /\ trace[i].params.returned = Null
        /\ trace[j].params.signals # trace[i].params.signals
        /\ Priority(trace[j].params.signals) = "nuxt"
        /\ trace[j].params.returned = Null

\* the override null was returned for a package.json without dependencies
C18_WitnessOverride ==
    \E i \in At("detectFramework") :
        /\ trace[i].params.stored = Null
        /\ ~IsDefined(trace[i].params.signals.dependencies)
        /\ trace[i].params.returned = Null

-----------------------------------------------------------------------------
(* Properties of an override the plugin does not know *)

\* C19, as stated: when the framework override names an unsupported identifier,
\* every phase that is run fails with a configuration error before any external
\* mutation; in the deploy and upload commands no phase completes and no
\* object-store write is issued.
C19_UnsupportedOverrideFails ==
    framework = Unsupported =>
        /\ pc \in {"idle", "failed", "upload-failed"}
        /\ At("putObject") = {}

-----------------------------------------------------------------------------
(* Properties of teardown on a stack that has the site bucket *)

\* the step is a run of the teardown hook
RemoveStep == pc' = "remove" /\ Len(trace') > Len(trace)

\* the positions of the step's requests that are of kind op
Requests(op) == {k \in 1..Len(requested) : requested[k].op = op}

\* the keys of a list of objects
KeysOf(objects) == {objects[k].Key : k \in 1..Len(objects)}

\* C21: once stack introspection has answered with the physical id of
\* SiteBucket, teardown issues exactly one list request and, only after it has
\* returned, at most one batch-delete request, whose objects are exactly the
\* keys that list returned; when the list returns no objects no delete request
\* is issued; objects beyond the first page of the listing are neither
\* requested nor deleted.
C21_ListThenDeleteOnce ==
    [][RemoveStep /\ requested[1].ok /\ PhysicalIds("SiteBucket") # {} =>
         /\ Len(requested) \in {2, 3}
         /\ Requests("listObjectsV2") = {2}
         /\ requested[2].params.Bucket \in PhysicalIds("SiteBucket")
         /\ Requests("deleteObjects") \subseteq {3}
         /\ Len(requested) = 3 =>
               /\ requested[2].ok
               /\ requested[3].op = "deleteObjects"
               /\ requested[3].params.Bucket = requested[2].params.Bucket
               /\ KeysOf(requested[3].params.Objects)
                     = KeysOf(requested[2].params.Contents)
               /\ Len(requested[3].params.Objects)
                     = Cardinality(KeysOf(requested[3].params.Objects))
         /\ requested[2].ok =>
               (Len(requested) = 3 <=> requested[2].params.Contents # <<>>)
         /\ \A key \in (DOMAIN bucket) \ KeysOf(requested[2].params.Contents) :
               key \in DOMAIN bucket' /\ bucket'[key] = bucket[key]]_vars

\* a bucket of three objects was listed, two were returned and deleted, and the
\* third is still there
C21_Witness ==
    /\ pc = "remove"
    /\ error = NoError
    /\ Len(trace) = 3
    /\ trace[3].op = "deleteObjects"
    /\ Len(trace[3].params.Objects) = 2
    /\ Cardinality(DOMAIN bucket) = 1

\* the list of an empty bucket returned nothing and teardown ended there
C21_WitnessEmpty ==
    /\ pc = "remove"
    /\ error = NoError
    /\ Len(trace) = 2
    /\ trace[2].op = "listObjectsV2"
    /\ trace[2].ok
    /\ trace[2].params.Contents = <<>>

-----------------------------------------------------------------------------
(* Properties of the errors of teardown *)

\* the message has the part
HasPart(message, part) == \E k \in 1..Len(message) : message[k] = part

\* C22: in a teardown step on a stack with the site bucket, a list request
\* rejected with AWS_S3_LIST_OBJECTS_V2_ACCESS_DENIED ends the step with the
\* rewrapped "Could not list objects" error and without a delete request; a
\* list request rejected with any other code ends it with the provider's own
\* error; a delete answer that reports errors ends it with an error that
\* carries the bucket name and the code of the first reported entry, in the
\* access-denied wording exactly when that first code is AccessDenied.
C22_TeardownErrors ==
    [][RemoveStep /\ requested[1].ok /\ PhysicalIds("SiteBucket") # {} =>
         LET listed     == requested[2]
             bucketName == listed.params.Bucket
         IN  /\ listed.params.Answer = "AWS_S3_LIST_OBJECTS_V2_ACCESS_DENIED" =>
                   /\ error' = <<"Could not list objects in the deployment bucket. Make sure you have sufficient permissions to access it. [",
                                 listed.params.Answer, "]">>
                   /\ Requests("deleteObjects") = {}
                   /\ bucket' = bucket
             /\ listed.params.Answer
                      \notin {"ok", "AWS_S3_LIST_OBJECTS_V2_ACCESS_DENIED"} =>
                   /\ error' = ProviderError(listed.params.Answer)
                   /\ Requests("deleteObjects") = {}
                   /\ bucket' = bucket
             /\ \A k \in Requests("deleteObjects") :
                   LET Errors == requested[k].params.Errors
                   IN  IF Errors # <<>>
                       THEN /\ error' # NoError
                            /\ HasPart(error', bucketName)
                            /\ HasPart(error', Errors[1].Code)
                            /\ HasPart(error', " [CANNOT_DELETE_S3_OBJECTS_ACCESS_DENIED]")
                                  <=> Errors[1].Code = "AccessDenied"
                            /\ HasPart(error', " [CANNOT_DELETE_S3_OBJECTS_GENERIC]")
                                  <=> Errors[1].Code # "AccessDenied"
                       ELSE requested[k].ok => error' = NoError]_vars

\* a delete answer reported two errors, the first InternalError and the second
\* AccessDenied, and teardown failed with the generic error
C22_Witness ==
    /\ pc = "remove"
    /\ Len(trace) = 3
    /\ trace[3].op = "deleteObjects"
    /\ Len(trace[3].params.Errors) = 2
    /\ trace[3].params.Errors[1].Code = "InternalError"
    /\ trace[3].params.Errors[2].Code = "AccessDenied"
    /\ HasPart(error, " [CANNOT_DELETE_S3_OBJECTS_GENERIC]")

\* a list request was rejected for permissions and nothing was deleted
C22_WitnessList ==
    /\ pc = "remove"
    /\ Len(trace) = 2
    /\ ~trace[2].ok
    /\ HasPart(error, "AWS_S3_LIST_OBJECTS_V2_ACCESS_DENIED")
    /\ bucket # EmptyObject

-----------------------------------------------------------------------------
(* Properties of the writes of one upload step *)

\* the step is a run of the upload step that ended without an error
UploadedStep == pc' = "uploaded" /\ Len(trace') > Len(trace)

\* the forward-slash paths, relative to the build output root, of the regular
\* files anywhere under it
FileKeys(out) ==
    {out[i].name : i \in {k \in 1..Len(out) : out[k].kind = "file"}}
    \cup UNION {{out[i].name \o <<"/">> \o out[i].children[j].name :
                    j \in {k \in 1..Len(out[i].children) :
                              out[i].children[k].kind = "file"}} :
                   i \in {k \in 1..Len(out) : out[k].kind = "dir"}}

\* the cache-control value of a key under the profile fw
Classified(key, fw) ==
    IF \/ fw = "nuxt" /\ StartsWith(key, nuxtName \o <<"/">>)
       \/ fw \in {"tanstack-start", "nitro", "vite"}
             /\ StartsWith(key, assetsName \o <<"/">>)
    THEN "public,max-age=31536000,immutable"
    ELSE "public,max-age=0,s-maxage=86400,stale-while-revalidate=8640"

\* C23: an upload step that succeeds issues exactly one putObject per regular
\* file anywhere under the build output directory (.output/public for the
\* server-compute profiles, dist otherwise) and none for a directory or a
\* symlink; each write goes to the bucket stack introspection reported, has as
\* key the forward-slash path of the file relative to the build output root,
\* and carries the cache-control value that key is classified with.
C23_OneWritePerFile ==
    [][UploadedStep =>
         LET puts == Requests("putObject")
         IN  /\ {requested[k].params.Key : k \in puts} = FileKeys(buildOutput)
             /\ Cardinality(puts) = Cardinality(FileKeys(buildOutput))
             /\ directory(framework')
                   = IF framework' \in {"nuxt", "nitro", "tanstack-start"}
                     THEN <<".", "o", "u", "t", "p", "u", "t", "/",
                            "p", "u", "b", "l", "i", "c">>
                     ELSE <<"d", "i", "s", "t">>
             /\ \A k \in puts :
                   /\ requested[k].ok
                   /\ requested[k].params.Bucket = getStackOutputs(stack)["SiteBucketName"]
                   /\ requested[k].params.CacheControl
                         = Classified(requested[k].params.Key, framework')]_vars

\* a build output of a directory with one file and of a symlink was uploaded
\* with one write, that of the file in the directory
C23_Witness ==
    /\ pc = "uploaded"
    /\ framework = "nitro"
    /\ Cardinality(At("spawn")) = 1
    /\ Len(buildOutput) = 2
    /\ \E i, j \in 1..2 : buildOutput[i].kind = "dir" /\ buildOutput[j].kind = "symlink"
    /\ Cardinality(At("putObject")) = 1
    /\ \A i \in At("putObject") :
          /\ trace[i].params.Key = assetsName \o <<"/">> \o hashedJsName
          /\ trace[i].params.Bucket = "site-bucket"

-----------------------------------------------------------------------------
(* Properties of a rejected write *)

\* the writes that were rejected
RejectedWrites == {i \in At("putObject") : ~trace[i].ok}

\* the upload steps: each starts where frontend:upload is spawned
UploadSteps == At("spawn")

\* the events of the upload step that starts at s: those up to the next step
\* of the command
StepOf(s) ==
    {i \in (s + 1)..Len(trace) :
        \A j \in (s + 1)..i : trace[j].op \notin {"spawn", "updateStack"}}

\* the object a completed write has stored
Written(i) ==
    [Body |-> trace[i].params.Body, CacheControl |-> trace[i].params.CacheControl,
     ContentType |-> trace[i].params.ContentType]

\* C24: when a write of an upload step is rejected the step and the command
\* end with an error at that write: no further write and no later phase
\* follows it; the writes the step had completed stay in the bucket; and an
\* upload step has ended without an error only if every regular file of the
\* build output has been written.
C24_FailedWriteEndsUpload ==
    /\ \A i \in RejectedWrites :
          /\ i = Len(trace)
          /\ pc \in {"failed", "upload-failed"}
          /\ error # ""
          /\ \A s \in UploadSteps : i \in StepOf(s) =>
                \A j \in StepOf(s) \cap At("putObject") : j < i =>
                    /\ trace[j].ok
                    /\ trace[j].params.Key \in DOMAIN bucket
                    /\ bucket[trace[j].params.Key] = Written(j)
    /\ \A s \in UploadSteps :
          (error = "" \/ \E j \in (s + 1)..Len(trace) : trace[j].op \in {"spawn", "updateStack"})
             => /\ \A j \in StepOf(s) : trace[j].ok
                /\ {trace[j].params.Key : j \in StepOf(s) \cap At("putObject")}
                      = FileKeys(buildOutput)

\* the second of two writes was rejected: the first file is in the bucket, the
\* second is not, and the command has failed
C24_Witness ==
    /\ pc = "failed"
    /\ Cardinality(At("putObject")) = 2
    /\ \E i \in RejectedWrites :
          /\ trace[i].params.Key \notin DOMAIN bucket
          /\ \E j \in At("putObject") :
                j < i /\ trace[j].ok /\ trace[j].params.Key \in DOMAIN bucket
                      /\ bucket[trace[j].params.Key] = Written(j)
    /\ At("updateStack") # {}

\* a write of the upload before the infrastructure update was rejected and
\* the update was never started
C24_WitnessPreUpload ==
    /\ pc = "failed"
    /\ RejectedWrites # {}
    /\ At("updateStack") = {}
    /\ At("spawn") # {}

-----------------------------------------------------------------------------
(* Properties of the phases that only a server needs *)

\* the step is a run of frontend:addFunctions that returned
AddFunctionsStep ==
    /\ Len(trace') = Len(trace) + 1
    /\ trace'[Len(trace')] = [op |-> "spawn", ok |-> TRUE,
                              params |-> [command |-> "frontend:addFunctions"]]
    /\ error' = NoError

\* the step is a run of the package phase that returned
PackageStep == pc = "built" /\ pc' = "packaged"

\* the events the step has added to the trace
added == SubSeq(trace', Len(trace) + 1, Len(trace'))

\* the functions whose artifact is the archive of the plugin
ComputeUnits(fns) ==
    {name \in DOMAIN fns :
        "package" \in DOMAIN fns[name]
            /\ fns[name].package.artifact = ".serverless/frontend-function.zip"}

\* C25: for nuxt, nitro and tanstack-start AddFunctions registers the function
\* `server`, with the handler server/index.handler and the artifact
\* .serverless/frontend-function.zip, and the package phase writes that
\* archive; for every other profile (vite and no profile among them) both
\* leave the functions and the artifact untouched; after AddFunctions has run again there is still exactly
\* one such function, and the other functions of the service are as they were.
C25_ServerPhases ==
    [][/\ AddFunctionsStep =>
             /\ \A name \in DOMAIN functions :
                   name # "server" =>
                       name \in DOMAIN functions' /\ functions'[name] = functions[name]
             /\ IF framework' \in {"nuxt", "nitro", "tanstack-start"}
                THEN /\ DOMAIN functions' = DOMAIN functions \cup {"server"}
                     /\ functions'["server"].handler = "server/index.handler"
                     /\ functions'["server"].package.artifact
                           = ".serverless/frontend-function.zip"
                     /\ ComputeUnits(functions') = {"server"}
                ELSE /\ functions' = functions
                     /\ ComputeUnits(functions') = {}
       /\ PackageStep =>
             /\ functions' = functions
             /\ IF framework' \in {"nuxt", "nitro", "tanstack-start"}
                THEN /\ Len(added) = 1
                     /\ added[1].op = "archive"
                     /\ added[1].params.file = ".serverless/frontend-function.zip"
                ELSE added = <<>>]_vars

\* AddFunctions has run twice for nitro in a service with a function of its
\* own, the build has run and the archive is written
C25_Witness ==
    /\ framework = "nitro"
    /\ pc = "packaged"
    /\ Cardinality(At("spawn")) = 2
    /\ DOMAIN functions = {"api", "server"}
    /\ At("archive") # {}

\* AddFunctions and the package phase have run for vite and added nothing
C25_WitnessVite ==
    /\ framework = "vite"
    /\ pc = "packaged"
    /\ At("spawn") # {}
    /\ DOMAIN functions = {"api"}
    /\ At("archive") = {}

\* AddFunctions and the package phase have run for no profile
C25_WitnessNone ==
    /\ framework = Null
    /\ pc = "packaged"
    /\ At("spawn") # {}
    /\ At("archive") = {}

-----------------------------------------------------------------------------
(* Properties of a build that is run again *)

\* the argument vector of the process of spawn i
vectorOf(i) == <<trace[i].params.cmd>> \o trace[i].params.args

\* C26: the build can be run again: a build that follows a build of the same
\* process and configuration spawns the executable and the argument vector
\* that the earlier one spawned, does not fail for want of a command the
\* earlier one had, and every build leaves the configured buildCommand as it
\* was.
C26_BuildIsRerunnable ==
    [][/\ SpawnStep =>
             /\ customConfig'.buildCommand = customConfig.buildCommand
             /\ \A i \in At("child_process.spawn") : spawnedVector = vectorOf(i)
       /\ (pc = "packaged" /\ pc' = "failed") =>
             error' # <<"N", "o", " ", "b", "u", "i", "l", "d", " ", "c", "o", "m", "m", "a", "n", "d", " ", "g", "i", "v", "e", "n">>]_vars

\* the same, for every build whose buildCommand is not configured as a list
C26_RerunnableUnlessList ==
    [][customConfig.buildCommand.type # "array" =>
         /\ SpawnStep =>
               /\ customConfig'.buildCommand = customConfig.buildCommand
               /\ \A i \in At("child_process.spawn") : spawnedVector = vectorOf(i)
         /\ (pc = "packaged" /\ pc' = "failed") =>
               error' # <<"N", "o", " ", "b", "u", "i", "l", "d", " ", "c", "o", "m", "m", "a", "n", "d", " ", "g", "i", "v", "e", "n">>]_vars

\* the list [npm, build] was built twice: the first build ran npm build, the
\* second ran build with no arguments, and the configured list is now empty
C26_WitnessShifted ==
    /\ Cardinality(At("child_process.spawn")) = 2
    /\ \E i, j \in At("child_process.spawn") :
          /\ i < j
          /\ vectorOf(i) = <<<<"n", "p", "m">>, <<"b", "u", "i", "l", "d">>>>
          /\ vectorOf(j) = <<<<"b", "u", "i", "l", "d">>>>
    /\ customConfig.buildCommand = CommandArray(<<>>)

-----------------------------------------------------------------------------
(* Properties of the resolution of the build command *)

\* the step is a run of build()
BuildStep ==
    /\ pc \in {"idle", "initialized", "packaged"}
    /\ pc' \in {"built", "failed"}
    /\ functions' = functions
    /\ Len(trace') = Len(trace) \/ trace'[Len(trace) + 1].op # "spawn"

\* the errors of a command that cannot be resolved
Unresolved ==
    {<<"U", "n", "k", "n", "o", "w", "n", " ", "p", "a", "c", "k", "a", "g", "e", " ", "m", "a", "n", "a", "g", "e", "r", ",", " ", "s", "p", "e", "c", "i", "f", "y", " ", "b", "u", "i", "l", "d", " ", "c", "o", "m", "m", "a", "n", "d", " ", "m", "a", "n", "u", "a", "l", "l", "y">>}
    \cup {UnknownBuildCommand(fw) : fw \in FrameworkConfigs \ {NoFramework}}

\* C27: a build with no buildCommand configured and no supported framework
\* resolved, or with no buildCommand configured and an unknown package
\* manager, or with an empty list as buildCommand, fails with an error and
\* spawns no process; a configured buildCommand is executed as it is given,
\* whatever the framework and the package manager are, and never fails for an
\* unknown framework or package manager.
C27_UnresolvedCommandFails ==
    [][BuildStep =>
         LET configured == customConfig.buildCommand
         IN  /\ (\/ configured.type = "undefined"
                       /\ framework' \notin {"tanstack-start", "nuxt", "nitro", "vite"}
                 \/ configured.type = "undefined" /\ packageManager = "unknown"
                 \/ configured.type = "array" /\ configured.value = <<>>)
                   => /\ pc' = "failed"
                      /\ error' # NoError
                      /\ trace' = trace
             /\ configured.type = "array" /\ configured.value = <<>>
                   => error' = <<"N", "o", " ", "b", "u", "i", "l", "d", " ", "c", "o", "m", "m", "a", "n", "d", " ", "g", "i", "v", "e", "n">>
             /\ configured.type = "undefined" /\ error' = NoError
                   => error' \notin Unresolved /\ SpawnStep
             /\ configured.type # "undefined" =>
                   /\ error' \notin Unresolved
                   /\ SpawnStep /\ configured.type = "array"
                         => spawnedVector = configured.value
                   /\ SpawnStep /\ configured.type = "string"
                         => joined(spawnedVector, " ") = configured.value]_vars

\* no command is configured, the framework is null, and the build has failed
\* without a process
C27_Witness ==
    /\ customConfig.buildCommand = NoCommand
    /\ framework = Null
    /\ pc = "failed"
    /\ error = UnknownBuildCommand(Null)
    /\ At("child_process.spawn") = {}

\* the package manager is unknown and the framework is detected
C27_WitnessPackageManager ==
    /\ customConfig.buildCommand = NoCommand
    /\ packageManager = "unknown"
    /\ framework = "vite"
    /\ pc = "failed"
    /\ At("child_process.spawn") = {}

\* an empty list is configured
C27_WitnessEmptyList ==
    /\ customConfig.buildCommand = CommandArray(<<>>)
    /\ pc = "failed"
    /\ At("child_process.spawn") = {}

\* a configured command has run with no framework and an unknown package manager
C27_WitnessExplicit ==
    /\ customConfig.buildCommand.type = "string"
    /\ framework = Null
    /\ packageManager = "unknown"
    /\ pc = "built"
    /\ \E i \in At("child_process.spawn") : trace[i].params.cmd = <<"n", "p", "m">>

-----------------------------------------------------------------------------
(* Properties of a topology synthesis that follows another *)

\* the behaviors of the emitted topology that carry a function association
Associated == {b \in AllBehaviors : "FunctionAssociations" \in DOMAIN b}

\* C28: a topology built with ssrForwardHost false has no function association
\* on any behavior, the default one included, and so refers to no
\* SSRForwardHost function, whatever an earlier synthesis of the process was
\* built with; and synthesis leaves the shared StandardCacheBehaviors as they
\* were when the module was loaded.
C28_SynthesisIsFresh ==
    /\ (Emitted /\ synth.ran /\ error = "" /\ synth.ssrForwardHost = Some(FALSE)) =>
          /\ Associated = {}
          /\ \A b \in Associated :
                \A k \in 1..Len(b.FunctionAssociations) :
                    b.FunctionAssociations[k].FunctionARN \in DOMAIN Resources
    /\ standardCacheBehaviors = StandardCacheBehaviors

\* the same for the first synthesis of a process: built from the shared
\* definitions as loaded, a topology with forwarding disabled has no association
C28_FirstSynthesisIsFresh ==
    [][(synth = NoSynthesis /\ synth'.ssrForwardHost = Some(FALSE) /\ error' = "") =>
          /\ \A b \in Associated' : FALSE
          /\ standardCacheBehaviors' = standardCacheBehaviors]_vars

\* a synthesis with forwarding disabled followed one with forwarding enabled:
\* the default behavior still carries the association, the path-scoped
\* behaviors do not
C28_WitnessStale ==
    /\ Emitted /\ synth.ran /\ error = "" /\ synth.ssrForwardHost = Some(FALSE)
    /\ ServerCompute
    /\ DC.DefaultCacheBehavior \in Associated
    /\ Len(PathBehaviors) = 2
    /\ \A k \in 1..Len(PathBehaviors) : PathBehaviors[k] \notin Associated
    /\ standardCacheBehaviors # StandardCacheBehaviors

-----------------------------------------------------------------------------
(* Properties of the topology of every profile *)

\* C29: whenever synthesis has emitted SiteDistribution without an error, for
\* any profile resolution returned (null among them), the DistributionConfig
\* has a DefaultCacheBehavior and at least one origin; for a profile without
\* server compute it has the two origins of the SPA shape.
C29_EveryTopologyIsComplete ==
    (Emitted /\ synth.ran /\ error = "") =>
        /\ "DefaultCacheBehavior" \in DOMAIN DC
        /\ OriginIds # {}
        /\ ~ServerCompute =>
              /\ "Origins" \in DOMAIN DC
              /\ [i \in 1..Len(DC.Origins) |-> DC.Origins[i].Id]
                    = <<"StaticFiles", "StaticFilesFallback">>

\* the same for the four supported frameworks
C29_SupportedTopologyIsComplete ==
    (Emitted /\ synth.ran /\ error = ""
        /\ framework \in {"nuxt", "nitro", "tanstack-start", "vite"}) =>
        /\ "DefaultCacheBehavior" \in DOMAIN DC
        /\ OriginIds # {}
        /\ ~ServerCompute =>
              [i \in 1..Len(DC.Origins) |-> DC.Origins[i].Id]
                 = <<"StaticFiles", "StaticFilesFallback">>

\* framework null: SiteDistribution is emitted with neither origins nor a
\* default behavior
C29_WitnessNull ==
    /\ Emitted /\ synth.ran /\ error = ""
    /\ framework = Null
    /\ "DefaultCacheBehavior" \notin DOMAIN DC
    /\ "Origins" \notin DOMAIN DC

-----------------------------------------------------------------------------
(* Properties of the objects an upload does not write *)

\* the step is a run of the upload step, whether it ended with an error or not
UploadStep == pc' \in {"uploaded", "upload-failed"} /\ Len(trace') > Len(trace)

\* C30: an upload step sends the object store putObject requests only, each
\* for the key of a regular file of the current build output, and no list or
\* delete request; every object of the bucket whose key is not such a key is
\* in the bucket afterwards with the same bytes, cache-control and content type.
C30_OtherObjectsUntouched ==
    [][UploadStep =>
         /\ \A k \in 1..Len(requested) :
               requested[k].op \in {"spawn", "describeStacks", "putObject"}
         /\ \A k \in Requests("putObject") :
               requested[k].params.Key \in FileKeys(buildOutput)
         /\ \A key \in DOMAIN bucket :
               key \notin FileKeys(buildOutput) =>
                   key \in DOMAIN bucket' /\ bucket'[key] = bucket[key]
         /\ DOMAIN bucket' \subseteq DOMAIN bucket \cup FileKeys(buildOutput)]_vars

\* an upload of two files has completed and the object of an earlier
\* deployment is still in the bucket as it was
C30_Witness ==
    /\ pc = "uploaded"
    /\ Cardinality(At("spawn")) = 1
    /\ Cardinality(At("putObject")) = 2
    /\ Cardinality(DOMAIN bucket) = 3
    /\ <<"o", "l", "d", ".", "j", "s">> \in DOMAIN bucket
    /\ bucket[<<"o", "l", "d", ".", "j", "s">>]
          = [Body |-> "v0",
             CacheControl |-> "public,max-age=0,s-maxage=86400,stale-while-revalidate=8640",
             ContentType |-> "text/javascript"]

====
